---------------------------- MODULE Spec2Model ----------------------------
(***************************************************************************)
(* Verification model of the fcdb storage substrate:                       *)
(*   - PackCAS (crates/fcdb-cas/src/lib.rs): pack files, content index,    *)
(*     three-level Bloom filters, put / get / open;                        *)
(*   - GraphDB (crates/fcdb-graph/src/lib.rs): rid map, timeline,          *)
(*     adjacency, traversal;                                               *)
(*   - AdaptiveBloomSystem (crates/fcdb-exec/src/lib.rs);                  *)
(*   - capabilities, transactions, leases, the audit log and the safe      *)
(*     executor (crates/fcdb-concur/src/lib.rs).                           *)
(* Byte strings are sequences over a small alphabet, digests are CidLen    *)
(* bytes wide, and the pack target size is scaled down so that pack        *)
(* rotation happens within the bounds.                                     *)
(***************************************************************************)
EXTENDS Integers, Sequences, FiniteSets, TLC

(* ------------------------------ bounds --------------------------------- *)
\* largest byte value of the model's byte alphabet (a byte is 0..ByteMax)
ByteMax == 3
\* longest payload handed to put
MaxDataLen == 2
\* most content-index records the store is driven to
MaxRecords == 3
\* most pack files the store is driven to
MaxPacks == 3
\* bits of one Bloom filter, and number of hash functions per filter
BloomBits == 8
BloomHashes == 2
\* modulus of the checksum model
CrcMod == 251
\* most bytes a pack file is driven to
MaxPackLen == 5
\* most I/O failures injected into one run
MaxFaults == 1
\* timestamps are 1..MaxTs
MaxTs == 3
\* resource ids named by callers are 1..MaxRid
MaxRid == 3
\* edge labels are 1..MaxLabel
MaxLabel == 2
\* most postings the text index is driven to
MaxPostings == 3
\* most edges the adjacency is driven to
MaxEdges == 3
\* largest max_depth handed to traverse
MaxDepth == 2

(* ------------------------ program constants ---------------------------- *)
\* width of a Cid in bytes ([u8; 32] in the source, scaled)
CidLen == 2
\* PACK_SIZE_TARGET (256 MiB in the source, scaled)
PACK_SIZE_TARGET == 4
\* size_of::<CidxRec>() is one record per slot of cidx_file
\* object kinds used by the graph layer: 0 for nodes, 1 for edge properties
NodeKind == 0
EdgeKind == 1

Byte == 0..ByteMax
Kinds == {NodeKind, EdgeKind}
PackBand == {"Small", "Index", "Blob"}

\* Option<T>: None is the empty set, Some(x) the singleton
None == {}
Some(x) == {x}

(* --------------------------- sequences --------------------------------- *)
RECURSIVE SeqsUpTo(_, _)
SeqsUpTo(S, n) ==
    IF n = 0 THEN {<<>>}
    ELSE LET shorter == SeqsUpTo(S, n - 1)
         IN  shorter \cup {Append(s, x) : s \in {t \in shorter : Len(t) = n - 1}, x \in S}

\* payloads drawn as inputs of put: the strings over {0,1} up to MaxDataLen
Data == SeqsUpTo({0, 1}, MaxDataLen)

Prefix(s, n) == SubSeq(s, 1, n)
Suffix(s, n) == SubSeq(s, n + 1, Len(s))

(* ------------------------------ Cid ------------------------------------ *)
RECURSIVE Pow(_, _)
Pow(b, n) == IF n = 0 THEN 1 ELSE b * Pow(b, n - 1)

CidSpace == Pow(ByteMax + 1, CidLen)

\* a byte string read as a number, most significant byte first
RECURSIVE ByteVal(_)
ByteVal(s) == IF s = <<>> THEN 0
              ELSE (ByteMax + 1) * ByteVal(Prefix(s, Len(s) - 1)) + s[Len(s)]

\* the number of byte strings shorter than n
RECURSIVE Shorter(_)
Shorter(n) == IF n = 0 THEN 0 ELSE Shorter(n - 1) + Pow(ByteMax + 1, n - 1)

\* injective numbering of byte strings: length first, then value
DataIndex(s) == Shorter(Len(s)) + ByteVal(s)

\* Cid::from_bytes over a number: its CidLen base-(ByteMax+1) digits
CidOfNum(v) == [i \in 1..CidLen |-> (v \div Pow(ByteMax + 1, CidLen - i)) % (ByteMax + 1)]

CidNum(c) == ByteVal(c)

\* Cid::hash: a fixed mixing function onto CidLen bytes; it is collision
\* free on the payloads the model stores (Data, NodeData, EdgeProps)
\* DataIndex modulo CidSpace, computed without leaving the machine integers
RECURSIVE ByteValMod(_)
ByteValMod(s) == IF s = <<>> THEN 0
                 ELSE ((ByteMax + 1) * ByteValMod(Prefix(s, Len(s) - 1)) + s[Len(s)]) % CidSpace
RECURSIVE PowMod(_, _)
PowMod(b, n) == IF n = 0 THEN 1 % CidSpace ELSE (b * PowMod(b, n - 1)) % CidSpace
RECURSIVE ShorterMod(_)
ShorterMod(n) == IF n = 0 THEN 0
                 ELSE (ShorterMod(n - 1) + PowMod(ByteMax + 1, n - 1)) % CidSpace
DataIndexMod(s) == (ShorterMod(Len(s)) + ByteValMod(s)) % CidSpace

Hash(data) == CidOfNum((7 * DataIndexMod(data) + 3) % CidSpace)

Cids == {CidOfNum(v) : v \in 0..(CidSpace - 1)}

(* ----------------------------- CidxRec --------------------------------- *)
\* crc32 over cid, pack_id, offset, len, kind, flags
Crc32(cid, pack_id, offset, len, kind, flags) ==
    (CidNum(cid) * 31 + pack_id * 17 + offset * 13 + len * 7 + kind * 3 + flags + 1) % CrcMod

CidxRecNew(cid, pack_id, offset, len, kind, flags) ==
    [cid |-> cid, pack_id |-> pack_id, offset |-> offset, len |-> len,
     kind |-> kind, flags |-> flags,
     crc |-> Crc32(cid, pack_id, offset, len, kind, flags)]

\* a reader that accepts every record, whatever its checksum
verify_crc_AcceptAll(rec) == rec.crc = rec.crc

verify_crc(rec) ==
    Crc32(rec.cid, rec.pack_id, rec.offset, rec.len, rec.kind, rec.flags) = rec.crc

(* --------------------------- BloomFilters ------------------------------ *)
\* bit positions one filter sets and tests for an item
BloomIndexes(cid) ==
    {((2 * i + 1) * CidNum(cid) + i) % BloomBits : i \in 1..BloomHashes}

FilterInsert(filter, cid) == filter \cup BloomIndexes(cid)
FilterContains(filter, cid) == BloomIndexes(cid) \subseteq filter

EmptyMap == [k \in {} |-> {}]

BloomFiltersNew == [global |-> {}, pack_filters |-> EmptyMap, shard_filters |-> EmptyMap]

\* entry(k).or_insert_with(empty filter).insert(cid)
EntryInsert(map, k, cid) ==
    IF k \in DOMAIN map
    THEN [map EXCEPT ![k] = FilterInsert(@, cid)]
    ELSE (k :> FilterInsert({}, cid)) @@ map

BloomInsert(bf, cid, pack_id, type_part, time_bucket) ==
    [global |-> FilterInsert(bf.global, cid),
     pack_filters |-> EntryInsert(bf.pack_filters, pack_id, cid),
     shard_filters |-> EntryInsert(bf.shard_filters, <<type_part, time_bucket>>, cid)]

BloomContains(bf, cid, pack_id, shard) ==
    /\ FilterContains(bf.global, cid)
    /\ \A p \in pack_id :
          p \in DOMAIN bf.pack_filters => FilterContains(bf.pack_filters[p], cid)
    /\ \A s \in shard :
          s \in DOMAIN bf.shard_filters => FilterContains(bf.shard_filters[s], cid)

\* (kind as u16) << 8
TypePart(kind) == (kind * 256) % 65536


\* largest reading of the clock
MaxNow == 4
\* most false positives recorded between two adaptations
MaxFps == 2
\* largest base and length of a capability, and largest permission mask
MaxCapBase == 2
MaxCapLen == 2
MaxPerms == 3
\* most transactions begun, and most resources one transaction holds of
\* each sort
MaxTxns == 2
MaxBorrowed == 2
MaxOwned == 1
\* most execute_safe calls made
MaxCalls == 3
\* most record_operation calls made by the concurrent recorders
MaxRecorded == 4
\* most operations in a trace
MaxOps == 3
\* most plans offered to select_plan
MaxPlans == 2
\* longest query path handed to split_query
MaxPath == 4
\* highest access count of a snapshot timestamp
MaxAccess == 2
\* most diffs applied to the manifest
MaxDiffs == 2
\* most query keys in a manifest table
MaxQKeys == 2

(* ------------------------------- state --------------------------------- *)
VARIABLES
    \* PackCAS fields
    current_pack,       \* Option<PackWriter>: pack_id, current_offset, band, file cursor
    packs,              \* HashMap<u32, PackMeta>
    bloom_filters,      \* BloomFilters
    next_pack_id,       \* u32
    \* the store's directory
    pack_files,         \* pack id -> bytes of pack_{id:08}.dat
    cidx_file,          \* the records of cidx.dat
    \* GraphDB fields
    rid_to_cid,         \* HashMap<Rid, Cid>
    temporal_rid_mappings, \* HashMap<Rid, BTreeMap<Timestamp, Cid>>
    adjacency,          \* HashMap<Rid, Vec<AdjEntry>>
    reverse_adjacency,  \* HashMap<Rid, Vec<AdjEntry>>
    postings,           \* HashMap<String, Vec<Posting>>
    current_timestamp,  \* Timestamp
    \* the last call and what it returned
    ret,
    \* the number of I/O failures the environment has injected
    faults,
    \* the Rids create_node has returned, in order
    created,
    \* the clock's reading
    now,
    \* the arguments of the pure function under check
    args,
    \* AdaptiveBloomSystem fields
    adaptive,
    \* the (digest, pack, shard) triples handed to AdaptiveBloomSystem::insert
    inserted,
    \* ResourceManager fields
    resources,          \* HashMap<Cid, Arc<RwLock<CapCid>>>
    next_txn_id,        \* u64
    \* the Transaction values that have not been consumed, by id
    txns,
    \* LeaseManager::active_leases
    active_leases,      \* HashMap<u64, LeaseInfo>
    \* CapTracer::trace_log
    trace_log,          \* Vec<CapTraceEntry>
    \* the record_operation calls in progress: the entry each caller has
    \* built and not yet pushed, and every entry pushed so far, in push order
    recorders,
    \* how many times execute_safe has run a user closure
    closure_runs,
    \* the Manifest
    manifest,
    \* the ManifestDiff values create_diff has returned and the caller holds
    pending,
    \* PlanSwitcher::plan_stats
    plan_stats,         \* HashMap<String, Vec<PlanStats>>
    \* SnapshotManager fields
    snapshots,          \* BTreeMap<u64, Cid>
    access_counts,      \* HashMap<u64, u64>
    \* the create_snapshot call in progress (with the parity of the passes its
    \* loop has made), and the manager's max_snapshots
    snap_call,
    \* the tasks that call the GraphDB concurrently: the call each is in, its
    \* arguments and locals, and the lock it waits for
    tasks,
    \* the RwLocks of the GraphDB: who holds each, and the queue of waiters
    locks

casVars == <<current_pack, packs, bloom_filters, next_pack_id, pack_files, cidx_file>>
graphVars == <<rid_to_cid, temporal_rid_mappings, adjacency, reverse_adjacency,
               postings, current_timestamp, created>>
execVars == <<adaptive, inserted>>
concurVars == <<resources, next_txn_id, txns, active_leases, trace_log, recorders,
                closure_runs>>
coreVars == <<manifest, pending>>
\* the query side: manifest, planner, snapshots
plannerVars == <<plan_stats, snapshots, access_counts>>
\* calls that are followed step by step
stepVars == <<snap_call, tasks, locks>>
queryVars == <<coreVars, plannerVars, stepVars>>
\* the state outside the store and the graph
otherCrates == <<execVars, concurVars, now, args, queryVars>>
vars == <<casVars, graphVars, ret, faults, otherCrates>>

\* current_pack: None
NoWriter == [open |-> FALSE, pack_id |-> 0, current_offset |-> 0, file_pos |-> 0,
             band |-> "Small"]

NoRet == [op |-> "none", tag |-> "none", cid |-> <<>>, data |-> <<>>, rid |-> 0]
Ret(op, tag, cid, data, rid) ==
    [op |-> op, tag |-> tag, cid |-> cid, data |-> data, rid |-> rid]

\* the PackCAS object together with its directory
CasState ==
    [current_pack |-> current_pack, packs |-> packs, bloom_filters |-> bloom_filters,
     next_pack_id |-> next_pack_id, pack_files |-> pack_files, cidx_file |-> cidx_file]

SetCas(s) ==
    /\ current_pack' = s.current_pack
    /\ packs' = s.packs
    /\ bloom_filters' = s.bloom_filters
    /\ next_pack_id' = s.next_pack_id
    /\ pack_files' = s.pack_files
    /\ cidx_file' = s.cidx_file

(* ------------------------------ PackCAS -------------------------------- *)
\* a write_all that reports success and leaves the file as it was
WriteAt_WritesNothing(content, pos, bytes) == content

\* File::write_all at the handle's cursor: overwrites, then extends
WriteAt(content, pos, bytes) ==
    LET n == IF pos + Len(bytes) > Len(content) THEN pos + Len(bytes) ELSE Len(content)
    IN  [i \in 1..n |->
            IF i > pos /\ i <= pos + Len(bytes) THEN bytes[i - pos] ELSE content[i]]

\* ensure_pack_writer on its Ok path
EnsurePackWriter(s, band) ==
    IF s.current_pack.open THEN s
    ELSE LET pack_id == s.next_pack_id
         IN  [s EXCEPT
                !.next_pack_id = pack_id + 1,
                !.pack_files = IF pack_id \in DOMAIN s.pack_files THEN @
                               ELSE (pack_id :> <<>>) @@ @,
                !.current_pack = [open |-> TRUE, pack_id |-> pack_id,
                                  current_offset |-> 0, file_pos |-> 0, band |-> band],
                !.packs = (pack_id :> [id |-> pack_id, band |-> band, size |-> 0]) @@ @]

\* close_current_pack
CloseCurrentPack(s) == [s EXCEPT !.current_pack = NoWriter]

\* append_cidx_record: seek to the end, write one record
AppendCidxRecord(s, record) == [s EXCEPT !.cidx_file = Append(@, record)]

IoOutcomes == {"ok", "open_fails", "write_fails", "cidx_fails"}

\* which I/O outcomes put can meet from s: a present writer is not reopened,
\* Bloom-known bytes cause no I/O, and write_all of no bytes cannot fail
IoPossible(s, data, io, cut) ==
    \/ io = "ok" /\ cut = 0
    \/ /\ ~BloomContains(s.bloom_filters, Hash(data), None, None)
       /\ \/ io = "open_fails" /\ ~s.current_pack.open /\ cut = 0
          \/ io = "write_fails" /\ cut \in 0..(Len(data) - 1)
          \/ io = "cidx_fails" /\ cut = 0

\* PackCAS::put. io names the I/O call that fails (if any), cut the number of
\* bytes write_all had written when it failed. The result is the store after
\* the call and the value returned.
Put(s, data, kind, band, io, cut) ==
    LET cid == Hash(data)
    IN
    IF BloomContains(s.bloom_filters, cid, None, None)
    THEN [s |-> s, tag |-> "Ok", cid |-> cid]
    ELSE IF io = "open_fails"
    THEN [s |-> [s EXCEPT !.next_pack_id = @ + 1], tag |-> "Err", cid |-> cid]
    ELSE
    LET s1 == EnsurePackWriter(s, band)
        w == s1.current_pack
        offset == w.current_offset
        pack_id == w.pack_id
    IN
    IF io = "write_fails"
    THEN [s |-> [s1 EXCEPT
                    !.pack_files[pack_id] = WriteAt(@, w.file_pos, Prefix(data, cut)),
                    !.current_pack.file_pos = @ + cut],
          tag |-> "Err", cid |-> cid]
    ELSE
    LET s2 == [s1 EXCEPT
                  !.pack_files[pack_id] = WriteAt(@, w.file_pos, data),
                  !.current_pack.file_pos = @ + Len(data),
                  !.current_pack.current_offset = @ + Len(data)]
    IN
    IF io = "cidx_fails"
    THEN [s |-> s2, tag |-> "Err", cid |-> cid]
    ELSE
    LET record == CidxRecNew(cid, pack_id, offset, Len(data), kind, 0)
        s3 == AppendCidxRecord(s2, record)
        s4 == [s3 EXCEPT !.bloom_filters =
                            BloomInsert(@, cid, pack_id, TypePart(kind), 0)]
        s5 == IF offset + Len(data) >= PACK_SIZE_TARGET THEN CloseCurrentPack(s4) ELSE s4
    IN  [s |-> s5, tag |-> "Ok", cid |-> cid]

GetOk(data) == [tag |-> "Ok", data |-> data]
GetNotFound == [tag |-> "NotFound", data |-> <<>>]

\* PackCAS::get. The packs are visited in the HashMap's iteration order, which
\* is unspecified: the result is that of any pack whose file passes the test.
Get(s, cid) ==
    IF ~BloomContains(s.bloom_filters, cid, None, None) THEN {GetNotFound}
    ELSE LET hits == {p \in DOMAIN s.packs :
                        /\ Len(s.pack_files[p]) > CidLen
                        /\ Prefix(s.pack_files[p], CidLen) = cid}
         IN  IF hits = {} THEN {GetNotFound}
             ELSE {GetOk(Suffix(s.pack_files[p], CidLen)) : p \in hits}

\* load_existing_packs: pack ids 0, 1, ... up to the first missing file
RECURSIVE CountPacks(_, _)
CountPacks(files, pack_id) ==
    IF pack_id \in DOMAIN files THEN CountPacks(files, pack_id + 1) ELSE pack_id

LoadExistingPacks(s) ==
    LET n == CountPacks(s.pack_files, 0)
    IN  [s EXCEPT
           !.packs = [p \in 0..(n - 1) |->
                        [id |-> p, band |-> "Blob", size |-> Len(s.pack_files[p])]],
           !.next_pack_id = n]

\* load_cidx: rebuild the Bloom filters from the records whose CRC verifies
\* an open that leaves the Bloom filters empty instead of rebuilding them
LoadCidxFrom_NoRebuild(records, i, bf) == bf

RECURSIVE LoadCidxFrom(_, _, _)
LoadCidxFrom(records, i, bf) ==
    IF i > Len(records) THEN bf
    ELSE LET record == records[i]
         IN  IF ~verify_crc(record) THEN LoadCidxFrom(records, i + 1, bf)
             ELSE LoadCidxFrom(records, i + 1,
                     BloomInsert(bf, record.cid, record.pack_id, TypePart(record.kind), 0))

LoadCidx(s) == [s EXCEPT !.bloom_filters = LoadCidxFrom(s.cidx_file, 1, @)]

\* PackCAS::open on a directory holding pack_files and cidx_file
Open(files, cidx) ==
    LoadCidx(LoadExistingPacks(
        [current_pack |-> NoWriter, packs |-> EmptyMap, bloom_filters |-> BloomFiltersNew,
         next_pack_id |-> 0, pack_files |-> files, cidx_file |-> cidx]))


(* ------------------------------- Init ---------------------------------- *)
Timestamps == 1..MaxTs

\* PackCAS::open on an empty directory
InitCas ==
    LET s == Open(EmptyMap, <<>>)
    IN  /\ current_pack = s.current_pack
        /\ packs = s.packs
        /\ bloom_filters = s.bloom_filters
        /\ next_pack_id = s.next_pack_id
        /\ pack_files = s.pack_files
        /\ cidx_file = s.cidx_file
        /\ ret = NoRet
        /\ faults = 0

\* GraphDB::new; current_timestamp is the clock's reading, ts
InitGraph(ts) ==
    /\ rid_to_cid = EmptyMap
    /\ temporal_rid_mappings = EmptyMap
    /\ adjacency = EmptyMap
    /\ reverse_adjacency = EmptyMap
    /\ postings = EmptyMap
    /\ current_timestamp = ts
    /\ created = <<>>

\* AdaptiveBloomSystem::new at clock reading t
AdaptiveBloomSystemNew(t) ==
    [global |-> {}, pack_filters |-> EmptyMap, shard_filters |-> EmptyMap,
     global_fps |-> <<>>, pack_fps |-> EmptyMap, shard_fps |-> EmptyMap,
     last_adaptation |-> t]

\* AdaptiveBloomSystem::new
InitExec ==
    /\ adaptive = AdaptiveBloomSystemNew(0)
    /\ inserted = {}

\* the tasks that call record_operation concurrently
Recorders == {"alice", "bob"}

\* SafeExecutor::new: ResourceManager::new, LeaseManager::new, CapTracer::new
InitConcur ==
    /\ resources = EmptyMap
    /\ next_txn_id = 1
    /\ txns = EmptyMap
    /\ active_leases = EmptyMap
    /\ trace_log = <<>>
    /\ recorders = [entry |-> [p \in Recorders |-> {}], recorded |-> <<>>]
    /\ closure_runs = 0

\* the crates other than the store and the graph, newly constructed
\* Manifest::new
ManifestNew == [base_version |-> 0, entries |-> EmptyMap, diffs |-> <<>>]

InitCore ==
    /\ manifest = ManifestNew
    /\ pending = {}

\* PlanSwitcher::new, SnapshotManager::new
InitPlanner ==
    /\ plan_stats = EmptyMap
    /\ snapshots = EmptyMap
    /\ access_counts = EmptyMap

\* the capacity handed to SnapshotManager::new (16 by default, scaled)
max_snapshots == 2

\* the tasks that share one GraphDB, and its locks by field name
MaxTasks == 2
Tasks == 1..MaxTasks
LockNames == {"cas", "rid_to_cid", "temporal_rid_mappings", "adjacency",
              "reverse_adjacency", "postings", "current_timestamp"}

\* the arguments and locals of a call: the Rid, payload or query, timestamp,
\* digest and edge target it works with, and what it returned
NoLocals == [rid |-> 0, data |-> <<>>, ts |-> 0, cid |-> <<>>, to |-> 0,
             tag |-> "none", got |-> <<>>, list |-> <<>>]

\* a task between calls; an RwLock nobody holds or waits for. req: the
\* task's request for the lock of its position is in that lock's queue
IdleTask == [pc |-> "idle", op |-> "none", calls |-> 0, req |-> FALSE, a |-> NoLocals]
FreeLock == [holders |-> {}, queue |-> <<>>]

\* no call in progress: no create_snapshot on a manager of capacity cap, all
\* tasks idle, all locks free
InitSteps(cap) ==
    /\ snap_call = [pc |-> "idle", max_snapshots |-> cap, as_of |-> 0, data_cid |-> <<>>,
                    passes |-> 0]
    /\ tasks = [t \in Tasks |-> IdleTask]
    /\ locks = [l \in LockNames |-> FreeLock]

InitQuery == InitCore /\ InitPlanner /\ InitSteps(max_snapshots)

InitOther == InitExec /\ InitConcur /\ InitQuery /\ now = 0 /\ args = <<>>

Init == InitCas /\ InitOther /\ \E ts \in Timestamps : InitGraph(ts)

\* a store used on its own, with no calls made on the graph
InitStoreOnly == InitCas /\ InitGraph(MaxTs) /\ InitOther

(* --------------------------- PackCAS actions --------------------------- *)
\* the calls the model drives: those that keep the store within its bounds
InBounds(s, data) ==
    \/ BloomContains(s.bloom_filters, Hash(data), None, None)
    \/ /\ Len(s.cidx_file) < MaxRecords
       /\ IF s.current_pack.open
          THEN s.current_pack.file_pos + Len(data) <= MaxPackLen
          ELSE s.next_pack_id < MaxPacks

\* cas.put(data, kind, band) returning Ok, its inputs drawn from D, K and B
PutOk(D, K, B) ==
    \E data \in D, kind \in K, band \in B :
        /\ InBounds(CasState, data)
        /\ \E r \in {Put(CasState, data, kind, band, "ok", 0)} :
               /\ SetCas(r.s)
               /\ ret' = Ret("put", r.tag, r.cid, data, 0)
        /\ UNCHANGED <<graphVars, faults, otherCrates>>

\* cas.put(data, kind, band) returning Err: an I/O call failed
PutErr(D, K, B) ==
    \E data \in D, kind \in K, band \in B,
       io \in IoOutcomes \ {"ok"}, cut \in 0..MaxDataLen :
        /\ faults < MaxFaults
        /\ InBounds(CasState, data)
        /\ IoPossible(CasState, data, io, cut)
        /\ \E r \in {Put(CasState, data, kind, band, io, cut)} :
               /\ SetCas(r.s)
               /\ ret' = Ret("put", r.tag, r.cid, data, 0)
        /\ faults' = faults + 1
        /\ UNCHANGED <<graphVars, otherCrates>>

\* the PackCAS is dropped and the directory opened again
Reopen ==
    /\ SetCas(Open(pack_files, cidx_file))
    /\ ret' = Ret("open", "Ok", <<>>, <<>>, 0)
    /\ UNCHANGED <<graphVars, faults, otherCrates>>

\* a record of cidx.dat is damaged on disk: its digest or its checksum changes
\* in the last byte
CorruptCidx ==
    \E i \in 1..Len(cidx_file) :
        /\ faults < MaxFaults
        /\ verify_crc(cidx_file[i])
        /\ \/ cidx_file' = [cidx_file EXCEPT
                              ![i].cid[CidLen] = (@ + 1) % (ByteMax + 1)]
           \/ cidx_file' = [cidx_file EXCEPT ![i].crc = (@ + 1) % CrcMod]
        /\ faults' = faults + 1
        /\ ret' = Ret("corrupt", "none", <<>>, <<>>, 0)
        /\ UNCHANGED <<current_pack, packs, bloom_filters, next_pack_id, pack_files,
                       graphVars, otherCrates>>

\* any sequence of successful puts, and reopening
NextCas == PutOk(Data, Kinds, {"Small"}) \/ Reopen
SpecCas == InitStoreOnly /\ [][NextCas]_vars

\* the payloads of the runs in which I/O calls may fail
DataIo == {<<0>>, <<0, 1>>, <<1, 1>>}

\* puts whose I/O may fail, and reopening
NextCasIo == PutOk(DataIo, Kinds, {"Small"}) \/ PutErr(DataIo, Kinds, {"Small"}) \/ Reopen
SpecCasIo == InitStoreOnly /\ [][NextCasIo]_vars

\* the same, with damage to the content index on disk
NextCasFault == NextCasIo \/ CorruptCidx
SpecCasFault == InitStoreOnly /\ [][NextCasFault]_vars


(* ------------------------------ GraphDB -------------------------------- *)
Rids == 1..MaxRid
Labels == 1..MaxLabel

\* text payloads: byte 0 is a blank, byte 1 a lower-case letter, byte 2 the
\* same letter in upper case; any other byte is not valid UTF-8
IsUtf8(data) == \A i \in 1..Len(data) : data[i] <= 2
IsBlank(b) == b = 0
ToLowerByte(b) == IF b = 2 THEN 1 ELSE b
to_lowercase(word) == [i \in 1..Len(word) |-> ToLowerByte(word[i])]

\* str::split_whitespace: the maximal runs of non-blank bytes, in order
RECURSIVE SplitFrom(_, _, _, _)
SplitFrom(text, i, word, words) ==
    IF i > Len(text)
    THEN IF word = <<>> THEN words ELSE Append(words, word)
    ELSE IF IsBlank(text[i])
         THEN SplitFrom(text, i + 1, <<>>,
                        IF word = <<>> THEN words ELSE Append(words, word))
         ELSE SplitFrom(text, i + 1, Append(word, text[i]), words)

split_whitespace(text) == SplitFrom(text, 1, <<>>, <<>>)

\* HashMap entry(k).or_insert_with(Vec::new).push(x)
EntryPush(map, k, x) ==
    IF k \in DOMAIN map THEN [map EXCEPT ![k] = Append(@, x)]
    ELSE (k :> <<x>>) @@ map

\* index_text: one posting per word, under the lower-cased word
RECURSIVE IndexWords(_, _, _, _, _)
IndexWords(post, words, pos, rid, timestamp) ==
    IF pos > Len(words) THEN post
    ELSE LET term == to_lowercase(words[pos])
             posting == [term |-> term, rid |-> rid, positions |-> <<pos - 1>>,
                         timestamp |-> timestamp]
         IN  IndexWords(EntryPush(post, term, posting), words, pos + 1, rid, timestamp)

index_text(post, rid, text, timestamp) ==
    IndexWords(post, split_whitespace(text), 1, rid, timestamp)

\* the indexing step of create_node and update_node
IndexIfText(post, rid, data, timestamp) ==
    IF IsUtf8(data) THEN index_text(post, rid, data, timestamp) ELSE post

\* BTreeMap<Timestamp, Cid> as the sequence of its entries in key order;
\* insert replaces the value of a key that is present
RECURSIVE BTreeInsertAt(_, _, _, _)
BTreeInsertAt(timeline, i, ts, cid) ==
    LET entry == [ts |-> ts, cid |-> cid]
    IN  IF i > Len(timeline) THEN Append(timeline, entry)
        ELSE IF timeline[i].ts = ts THEN [timeline EXCEPT ![i] = entry]
        ELSE IF timeline[i].ts > ts
             THEN SubSeq(timeline, 1, i - 1) \o <<entry>> \o SubSeq(timeline, i, Len(timeline))
             ELSE BTreeInsertAt(timeline, i + 1, ts, cid)

BTreeInsert(timeline, ts, cid) == BTreeInsertAt(timeline, 1, ts, cid)

\* temporal.entry(rid).or_insert_with(BTreeMap::new).insert(ts, cid)
TemporalInsert(temporal, rid, ts, cid) ==
    IF rid \in DOMAIN temporal
    THEN [temporal EXCEPT ![rid] = BTreeInsert(@, ts, cid)]
    ELSE (rid :> BTreeInsert(<<>>, ts, cid)) @@ temporal

\* HashMap::insert
MapInsert(map, k, v) ==
    IF k \in DOMAIN map THEN [map EXCEPT ![k] = v] ELSE (k :> v) @@ map

\* timeline.range(..=as_of): the entries whose key is at most as_of, in order
IsAtMost(as_of, entry) == entry.ts <= as_of
RangeToInclusive(timeline, as_of) ==
    LET Keep(entry) == IsAtMost(as_of, entry) IN SelectSeq(timeline, Keep)

\* Iterator::next_back
NextBack(entries) == IF entries = <<>> THEN None ELSE Some(entries[Len(entries)])

\* the digest get_node_at selects: Option<Cid>
TimelineCidAt(temporal, rid, as_of) ==
    IF rid \in DOMAIN temporal
    THEN {e.cid : e \in NextBack(RangeToInclusive(temporal[rid], as_of))}
    ELSE None

\* what a read of the store through the graph can return
ReadNone == [tag |-> "None", data |-> <<>>]
ReadOfCid(s, cid_opt) ==
    IF cid_opt = None THEN {ReadNone}
    ELSE UNION {Get(s, cid) : cid \in cid_opt}

\* GraphDB::get_node
get_node(s, rid) ==
    ReadOfCid(s, IF rid \in DOMAIN rid_to_cid THEN Some(rid_to_cid[rid]) ELSE None)

\* GraphDB::get_node_at
get_node_at(s, rid, as_of) ==
    ReadOfCid(s, TimelineCidAt(temporal_rid_mappings, rid, as_of))

\* a traversal that never compares an edge's timestamp with as_of
EdgeAfter_Never(edge, as_of) == FALSE

\* if let Some(as_of) = as_of { if edge.timestamp > as_of { continue } }
EdgeAfter(edge, as_of) == \E t \in as_of : edge.timestamp > t

\* if let Some(labels) = labels { if !labels.contains(&edge.label) { continue } }
LabelExcluded(edge, labels) == \E ls \in labels : edge.label \notin ls

\* the edges of `edges` from index i on that traverse pushes, as (target, depth)
RECURSIVE PushEdges(_, _, _, _, _, _)
PushEdges(queue, edges, i, depth, labels, as_of) ==
    IF i > Len(edges) THEN queue
    ELSE LET edge == edges[i]
         IN  IF EdgeAfter(edge, as_of)
             THEN PushEdges(queue, edges, i + 1, depth, labels, as_of)
             ELSE IF LabelExcluded(edge, labels)
             THEN PushEdges(queue, edges, i + 1, depth, labels, as_of)
             ELSE PushEdges(Append(queue, <<edge.target, depth + 1>>), edges, i + 1,
                            depth, labels, as_of)

\* the loop of traverse: queue.pop() takes the element pushed last
RECURSIVE TraverseLoop(_, _, _, _, _, _, _)
TraverseLoop(adj, queue, visited, result, labels, max_depth, as_of) ==
    IF queue = <<>> THEN result
    ELSE LET current == queue[Len(queue)][1]
             depth == queue[Len(queue)][2]
             rest == SubSeq(queue, 1, Len(queue) - 1)
         IN  IF depth > max_depth \/ current \in visited
             THEN TraverseLoop(adj, rest, visited, result, labels, max_depth, as_of)
             ELSE TraverseLoop(
                    adj,
                    IF depth < max_depth /\ current \in DOMAIN adj
                    THEN PushEdges(rest, adj[current], 1, depth, labels, as_of)
                    ELSE rest,
                    visited \cup {current},
                    Append(result, <<current, depth>>),
                    labels, max_depth, as_of)

\* GraphDB::traverse(from, labels, max_depth, as_of): labels is an Option of a
\* set of labels, as_of an Option of a timestamp
traverse(adj, from, labels, max_depth, as_of) ==
    TraverseLoop(adj, <<<<from, 0>>>>, {}, <<>>, labels, max_depth, as_of)

(* --------------------------- GraphDB actions --------------------------- *)
RECURSIVE SumLens(_, _)
SumLens(map, K) == IF K = {} THEN 0
                   ELSE LET k == CHOOSE x \in K : TRUE
                        IN  Len(map[k]) + SumLens(map, K \ {k})
TotalPostings == SumLens(postings, DOMAIN postings)
TotalEdges == SumLens(adjacency, DOMAIN adjacency)

\* the I/O outcomes a call that puts data can meet within the fault budget
IoChoice(data, io, cut) ==
    /\ io # "ok" => faults < MaxFaults
    /\ InBounds(CasState, data)
    /\ IoPossible(CasState, data, io, cut)
    /\ faults' = IF io = "ok" THEN faults ELSE faults + 1

\* graph.set_timestamp(ts), ts drawn from T
SetTimestamp(T) ==
    \E ts \in T :
        /\ current_timestamp' = ts
        /\ UNCHANGED <<casVars, rid_to_cid, temporal_rid_mappings, adjacency,
                       reverse_adjacency, postings, created, ret, faults, otherCrates>>

\* graph.create_node(data), data drawn from D
CreateNode(D) ==
    \E data \in D, io \in IoOutcomes, cut \in 0..MaxDataLen :
        /\ TotalPostings + Len(split_whitespace(data)) <= MaxPostings
        /\ IoChoice(data, io, cut)
        /\ \E r \in {Put(CasState, data, NodeKind, "Small", io, cut)},
              rid \in {Cardinality(DOMAIN rid_to_cid) + 1},
              ts \in {current_timestamp} :
            /\ SetCas(r.s)
            /\ IF r.tag = "Ok"
               THEN /\ rid_to_cid' = MapInsert(rid_to_cid, rid, r.cid)
                    /\ temporal_rid_mappings' =
                          TemporalInsert(temporal_rid_mappings, rid, ts, r.cid)
                    /\ postings' = IndexIfText(postings, rid, data, ts)
                    /\ created' = Append(created, rid)
                    /\ ret' = Ret("create_node", "Ok", r.cid, data, rid)
               ELSE /\ ret' = Ret("create_node", "Err", r.cid, data, 0)
                    /\ UNCHANGED <<rid_to_cid, temporal_rid_mappings, postings, created>>
        /\ UNCHANGED <<adjacency, reverse_adjacency, current_timestamp, otherCrates>>

\* graph.update_node(rid, data), rid any Rid a caller can name
UpdateNode(D) ==
    \E rid \in Rids, data \in D, io \in IoOutcomes, cut \in 0..MaxDataLen :
        /\ TotalPostings + Len(split_whitespace(data)) <= MaxPostings
        /\ IoChoice(data, io, cut)
        /\ \E r \in {Put(CasState, data, NodeKind, "Small", io, cut)},
              ts \in {current_timestamp} :
            /\ SetCas(r.s)
            /\ IF r.tag = "Ok"
               THEN /\ rid_to_cid' = MapInsert(rid_to_cid, rid, r.cid)
                    /\ temporal_rid_mappings' =
                          TemporalInsert(temporal_rid_mappings, rid, ts, r.cid)
                    /\ postings' = IndexIfText(postings, rid, data, ts)
                    /\ ret' = Ret("update_node", "Ok", r.cid, data, rid)
               ELSE /\ ret' = Ret("update_node", "Err", r.cid, data, rid)
                    /\ UNCHANGED <<rid_to_cid, temporal_rid_mappings, postings>>
        /\ UNCHANGED <<adjacency, reverse_adjacency, current_timestamp, created,
                       otherCrates>>

\* AdjEntry { target, label, properties, timestamp }
AdjEntry(target, label, properties, timestamp) ==
    [target |-> target, label |-> label, properties |-> properties,
     timestamp |-> timestamp]

\* the entry create_edge pushes under `from` in adjacency
ForwardEntry(from, to, label, prop_cid, ts) == AdjEntry(to, label, prop_cid, ts)

\* a reverse entry that keeps the edge's target instead of naming its origin
ReverseEntry_KeepsTarget(from, to, label, prop_cid, ts) == AdjEntry(to, label, prop_cid, ts)

\* the entry create_edge pushes under `to` in reverse_adjacency
ReverseEntry(from, to, label, prop_cid, ts) == AdjEntry(from, label, prop_cid, ts)

\* graph.create_edge(from, to, label, properties), properties drawn from D
CreateEdge(D) ==
    \E from \in Rids, to \in Rids, label \in Labels, properties \in D,
       io \in IoOutcomes, cut \in 0..MaxDataLen :
        /\ TotalEdges < MaxEdges
        /\ IoChoice(properties, io, cut)
        /\ \E r \in {Put(CasState, properties, EdgeKind, "Small", io, cut)},
              ts \in {current_timestamp} :
            /\ SetCas(r.s)
            /\ IF r.tag = "Ok"
               THEN /\ adjacency' = EntryPush(adjacency, from,
                          ForwardEntry(from, to, label, r.cid, ts))
                    /\ reverse_adjacency' = EntryPush(reverse_adjacency, to,
                          ReverseEntry(from, to, label, r.cid, ts))
                    /\ ret' = Ret("create_edge", "Ok", r.cid, properties, 0)
               ELSE /\ ret' = Ret("create_edge", "Err", r.cid, properties, 0)
                    /\ UNCHANGED <<adjacency, reverse_adjacency>>
        /\ UNCHANGED <<rid_to_cid, temporal_rid_mappings, postings,
                       current_timestamp, created, otherCrates>>

\* node payloads: the texts "a" and "A"
NodeData == {<<1>>, <<2>>}

\* nodes and their timelines
NextNodes == SetTimestamp(Timestamps) \/ CreateNode(NodeData) \/ UpdateNode(NodeData)
SpecNodes == Init /\ [][NextNodes]_vars

\* edge properties, and the two clock readings edges are created at
EdgeProps == {<<1>>}
EdgeTimes == {1, MaxTs}

\* edges and traversal
InitEdges == InitCas /\ InitOther /\ \E ts \in EdgeTimes : InitGraph(ts)
NextEdges == SetTimestamp(EdgeTimes) \/ CreateEdge(EdgeProps)
SpecEdges == InitEdges /\ [][NextEdges]_vars

(* ------------------------- AdaptiveBloomSystem ------------------------- *)
\* AdaptiveBloomConfig::adaptation_interval_secs, scaled to the model's clock
adaptation_interval_secs == 2

\* the state of the store and the graph, which the other crates do not touch
storeAndGraph == <<casVars, graphVars, faults>>

\* AdaptiveBloomSystem::insert
AdaptiveInsert(sys, cid, pack_id, type_part, time_bucket) ==
    [sys EXCEPT !.global = FilterInsert(@, cid),
                !.pack_filters = EntryInsert(@, pack_id, cid),
                !.shard_filters = EntryInsert(@, <<type_part, time_bucket>>, cid)]

\* AdaptiveBloomSystem::contains; pack_id and shard are Options
AdaptiveContains(sys, cid, pack_id, shard) ==
    /\ FilterContains(sys.global, cid)
    /\ \A p \in pack_id :
          p \in DOMAIN sys.pack_filters => FilterContains(sys.pack_filters[p], cid)
    /\ \A s \in shard :
          s \in DOMAIN sys.shard_filters => FilterContains(sys.shard_filters[s], cid)

\* AdaptiveBloomSystem::reconfigure_filters: a new global filter, the pack and
\* shard filters cleared
reconfigure_filters(sys) ==
    [sys EXCEPT !.global = {}, !.pack_filters = EmptyMap, !.shard_filters = EmptyMap]

\* AdaptiveBloomSystem::adapt_filters
adapt_filters(sys) ==
    [reconfigure_filters(sys) EXCEPT
        !.global_fps = <<>>, !.pack_fps = EmptyMap, !.shard_fps = EmptyMap]

\* the statistics record_fp pushes
PushFps(sys, pack_id, shard) ==
    [sys EXCEPT
        !.global_fps = Append(@, 1),
        !.pack_fps = IF pack_id = None THEN @
                     ELSE EntryPush(@, CHOOSE p \in pack_id : TRUE, 1),
        !.shard_fps = IF shard = None THEN @
                      ELSE EntryPush(@, CHOOSE s \in shard : TRUE, 1)]

\* AdaptiveBloomSystem::record_fp at clock reading t
record_fp(sys, pack_id, shard, t) ==
    IF t - sys.last_adaptation > adaptation_interval_secs
    THEN [adapt_filters(PushFps(sys, pack_id, shard)) EXCEPT !.last_adaptation = t]
    ELSE PushFps(sys, pack_id, shard)

\* the clock advances
Tick ==
    /\ now < MaxNow
    /\ now' = now + 1
    /\ UNCHANGED <<storeAndGraph, ret, execVars, concurVars, args, queryVars>>

\* the digests, packs and shards the adaptive filters are driven with
AbCids == {Hash(<<0>>), Hash(<<1>>)}
AbPacks == {0, 1}
AbShards == {<<TypePart(NodeKind), 0>>}

\* bloom.insert(cid, pack_id, type_part, time_bucket)
AbInsert ==
    \E cid \in AbCids, pack_id \in AbPacks, shard \in AbShards :
        /\ adaptive' = AdaptiveInsert(adaptive, cid, pack_id, shard[1], shard[2])
        /\ inserted' = inserted \cup {[cid |-> cid, pack_id |-> pack_id, shard |-> shard]}
        /\ ret' = Ret("insert", "Ok", cid, <<>>, 0)
        /\ UNCHANGED <<storeAndGraph, concurVars, now, args, queryVars>>

\* bloom.record_fp(pack_id, shard)
AbRecordFp ==
    \E pack_id \in {None} \cup {Some(p) : p \in AbPacks},
       shard \in {None} \cup {Some(s) : s \in AbShards} :
        /\ Len(adaptive.global_fps) < MaxFps
        /\ adaptive' = record_fp(adaptive, pack_id, shard, now)
        /\ ret' = Ret("record_fp", "Ok", <<>>, <<>>, 0)
        /\ UNCHANGED <<storeAndGraph, inserted, concurVars, now, args, queryVars>>

NextAdaptive == AbInsert \/ AbRecordFp \/ Tick
SpecAdaptive == InitStoreOnly /\ [][NextAdaptive]_vars

(* ---------------------------- capabilities ---------------------------- *)
\* perms::READ, perms::WRITE
READ == 1
WRITE == 2

\* u32 & u32
RECURSIVE BitAnd(_, _)
BitAnd(a, b) ==
    IF a = 0 \/ b = 0 THEN 0
    ELSE 2 * BitAnd(a \div 2, b \div 2) + (IF a % 2 = 1 /\ b % 2 = 1 THEN 1 ELSE 0)

\* u64::max, u64::min
Max(a, b) == IF a >= b THEN a ELSE b
Min(a, b) == IF a <= b THEN a ELSE b

\* Cap { base, len, perms, proof }
MkCap(base, len, perms, proof) ==
    [base |-> base, len |-> len, perms |-> perms, proof |-> proof]

\* Cap::has_perm
has_perm(cap, perm) == BitAnd(cap.perms, perm) # 0

\* the capability cap_flat_map gives the result: `outer` is the capability of
\* self, `inner` the one of the value the closure returned
cap_flat_map(outer, inner) ==
    MkCap(Max(inner.base, outer.base), Min(inner.len, outer.len),
          BitAnd(inner.perms, outer.perms), inner.proof)

\* the capabilities composed: every base, length and permission mask, the
\* outer one with proof 0 and the inner one with proof 1
CapsWithProof(proof) ==
    {MkCap(b, l, p, proof) : b \in 0..MaxCapBase, l \in 0..MaxCapLen, p \in 0..MaxPerms}

\* owned.cap_flat_map(f) for the arguments drawn
ApplyCapFlatMap ==
    /\ ret' = Ret("cap_flat_map", "Ok", <<>>, cap_flat_map(args[1], args[2]), 0)
    /\ UNCHANGED <<storeAndGraph, execVars, concurVars, now, args, queryVars>>

InitCapMeet ==
    /\ InitCas /\ InitGraph(MaxTs) /\ InitExec /\ InitConcur /\ InitQuery /\ now = 0
    /\ args \in CapsWithProof(0) \X CapsWithProof(1)
SpecCapMeet == InitCapMeet /\ [][ApplyCapFlatMap]_vars

(* ---------------------------- transactions ---------------------------- *)
\* Transaction::new: timeout_ms, scaled to the model's clock
timeout_ms == 2

\* CapCid::new
CapCidNew(cid, cap) == [cap |-> cap, cid |-> cid]

\* Transaction::new(id) at clock reading t. `acquired` is bookkeeping of the
\* model: for each borrowed resource, the call that added it.
TransactionNew(id, t) ==
    [id |-> id, owned_resources |-> <<>>, borrowed_resources |-> <<>>,
     start_time |-> t, timeout_ms |-> timeout_ms, acquired |-> <<>>]

\* a transaction that counts as expired once its timeout is reached
is_expired_AtTimeout(txn, t) == t - txn.start_time >= txn.timeout_ms

\* Transaction::is_expired at clock reading t
is_expired(txn, t) == t - txn.start_time > txn.timeout_ms

\* Transaction::add_owned
add_owned(txn, cap_cid) == [txn EXCEPT !.owned_resources = Append(@, cap_cid)]

\* Transaction::add_borrowed, by the call `how`
add_borrowed(txn, cap_cid, how) ==
    [txn EXCEPT !.borrowed_resources = Append(@, cap_cid),
                !.acquired = Append(@, how)]

\* the first entry of a list whose digest is target_cid, as an Option
FirstWithCid(entries, target_cid) ==
    LET hits == {i \in 1..Len(entries) : entries[i].cid = target_cid}
    IN  IF hits = {} THEN None
        ELSE Some(entries[CHOOSE i \in hits : \A j \in hits : i <= j])

\* what the loops of check_write_perm return at a matching entry
PermOf(entry) == IF has_perm(entry.cap, WRITE) THEN "Ok" ELSE "PermissionDenied"

\* Transaction::check_write_perm
check_write_perm(txn, target_cid) ==
    LET owned == FirstWithCid(txn.owned_resources, target_cid)
        borrowed == FirstWithCid(txn.borrowed_resources, target_cid)
    IN  IF owned # None THEN PermOf(CHOOSE e \in owned : TRUE)
        ELSE IF borrowed # None THEN PermOf(CHOOSE e \in borrowed : TRUE)
        ELSE "PermissionDenied"

\* HashMap::remove
MapRemove(map, k) == [x \in DOMAIN map \ {k} |-> map[x]]

\* the frame of a ResourceManager call
TxnFrame == UNCHANGED <<storeAndGraph, execVars, active_leases, trace_log, recorders,
                        closure_runs, now, args, queryVars>>

\* rm.register_resource(cid, cap), cid drawn from C and cap from K
RegisterResource(C, K) ==
    \E cid \in C, cap \in K :
        /\ resources' = MapInsert(resources, cid, CapCidNew(cid, cap))
        /\ ret' = Ret("register_resource", "Ok", cid, cap, 0)
        /\ UNCHANGED <<next_txn_id, txns>>
        /\ TxnFrame

\* rm.begin_transaction()
BeginTransaction ==
    /\ next_txn_id <= MaxTxns
    /\ txns' = MapInsert(txns, next_txn_id, TransactionNew(next_txn_id, now))
    /\ next_txn_id' = next_txn_id + 1
    /\ ret' = Ret("begin_transaction", "Ok", <<>>, <<>>, next_txn_id)
    /\ UNCHANGED resources
    /\ TxnFrame

\* txn.add_owned(OwnedCapCid::new(data, cap, cid))
AddOwned(C, K) ==
    \E id \in DOMAIN txns, cid \in C, cap \in K :
        /\ Len(txns[id].owned_resources) < MaxOwned
        /\ txns' = [txns EXCEPT ![id] = add_owned(@, CapCidNew(cid, cap))]
        /\ ret' = Ret("add_owned", "Ok", cid, cap, id)
        /\ UNCHANGED <<resources, next_txn_id>>
        /\ TxnFrame

\* rm.acquire_exclusive(&cid, &mut txn)
AcquireExclusive(C) ==
    \E id \in DOMAIN txns, cid \in C :
        /\ Len(txns[id].borrowed_resources) < MaxBorrowed
        /\ IF cid \in DOMAIN resources
           THEN IF check_write_perm(txns[id], cid) = "Ok"
                THEN /\ txns' = [txns EXCEPT
                                   ![id] = add_borrowed(@, resources[cid], "exclusive")]
                     /\ ret' = Ret("acquire_exclusive", "Ok", cid, <<>>, id)
                ELSE /\ ret' = Ret("acquire_exclusive", check_write_perm(txns[id], cid),
                                   cid, <<>>, id)
                     /\ UNCHANGED txns
           ELSE /\ ret' = Ret("acquire_exclusive", "OwnershipViolation", cid, <<>>, id)
                /\ UNCHANGED txns
        /\ UNCHANGED <<resources, next_txn_id>>
        /\ TxnFrame

\* rm.acquire_shared(&cid, &mut txn)
AcquireShared(C) ==
    \E id \in DOMAIN txns, cid \in C :
        /\ Len(txns[id].borrowed_resources) < MaxBorrowed
        /\ IF cid \in DOMAIN resources
           THEN /\ txns' = [txns EXCEPT
                              ![id] = add_borrowed(@, resources[cid], "shared")]
                /\ ret' = Ret("acquire_shared", "Ok", cid, <<>>, id)
           ELSE /\ ret' = Ret("acquire_shared", "OwnershipViolation", cid, <<>>, id)
                /\ UNCHANGED txns
        /\ UNCHANGED <<resources, next_txn_id>>
        /\ TxnFrame

\* txn.check_write_perm(&cid)
CheckWritePerm(C) ==
    \E id \in DOMAIN txns, cid \in C :
        /\ ret' = Ret("check_write_perm", check_write_perm(txns[id], cid), cid, <<>>, id)
        /\ UNCHANGED <<resources, next_txn_id, txns>>
        /\ TxnFrame

\* rm.commit_transaction(txn): the transaction is moved into the call
CommitTransaction ==
    \E id \in DOMAIN txns :
        /\ txns' = MapRemove(txns, id)
        /\ ret' = Ret("commit_transaction",
                      IF is_expired(txns[id], now) THEN "TransactionConflict" ELSE "Ok",
                      <<>>, <<>>, id)
        /\ UNCHANGED <<resources, next_txn_id>>
        /\ TxnFrame

\* rm.abort_transaction(txn): the transaction is moved into the call
AbortTransaction ==
    \E id \in DOMAIN txns :
        /\ txns' = MapRemove(txns, id)
        /\ ret' = Ret("abort_transaction", "Ok", <<>>, <<>>, id)
        /\ UNCHANGED <<resources, next_txn_id>>
        /\ TxnFrame

\* the resource and the capabilities transactions are driven with
TxnCids == {Hash(<<0>>)}
TxnCaps == {MkCap(0, MaxCapLen, READ, 0), MkCap(0, MaxCapLen, READ + WRITE, 0)}

\* resources, transactions and their permissions
NextTxn ==
    \/ RegisterResource(TxnCids, TxnCaps)
    \/ BeginTransaction
    \/ AddOwned(TxnCids, TxnCaps)
    \/ AcquireExclusive(TxnCids)
    \/ AcquireShared(TxnCids)
    \/ CheckWritePerm(TxnCids)
    \/ CommitTransaction
    \/ AbortTransaction
SpecTxn == InitStoreOnly /\ [][NextTxn]_vars

\* the lifetime of transactions against the clock
NextCommit == BeginTransaction \/ CommitTransaction \/ AbortTransaction \/ Tick
SpecCommit == InitStoreOnly /\ [][NextCommit]_vars

(* ------------------------------ orderings ------------------------------ *)
\* the sequences that hold every element of S once (the orders in which a
\* hash map may hand out its elements)
Orderings(S) ==
    {s \in [1..Cardinality(S) -> S] : \A i, j \in DOMAIN s : s[i] = s[j] => i = j}

(* -------------------------------- search ------------------------------- *)
\* the (Rid, score) pairs search collects: one per Rid with a posting under
\* the query as given, scored by the number of its postings
SearchResults(post, query) ==
    IF query \in DOMAIN post
    THEN {<<rid, Cardinality({i \in DOMAIN post[query] : post[query][i].rid = rid})>> :
            rid \in {post[query][i].rid : i \in DOMAIN post[query]}}
    ELSE {}

\* GraphDB::search: the sequences it may return. The pairs leave the HashMap
\* in any order and the stable sort by descending score keeps ties that way
search(post, query) ==
    {s \in Orderings(SearchResults(post, query)) :
        \A i, j \in DOMAIN s : i < j => s[i][2] >= s[j][2]}

\* graph.search(query), query drawn from Q
Search(Q) ==
    \E query \in Q :
        \E results \in search(postings, query) :
            /\ ret' = Ret("search", "Ok", <<>>, [query |-> query, results |-> results], 0)
            /\ UNCHANGED <<casVars, graphVars, faults, otherCrates>>

\* the search terms: "a" and "A"
SearchTerms == {<<1>>, <<2>>}

NextSearch == CreateNode(NodeData) \/ UpdateNode(NodeData) \/ Search(SearchTerms)
SpecSearch == InitStoreOnly /\ [][NextSearch]_vars

(* ------------------------------- TraceNF ------------------------------- *)
\* enum TraceOp
NodeCreate(id, data) == [op |-> "NodeCreate", id |-> id, data |-> data]
EdgeCreate(from, to, label, props) ==
    [op |-> "EdgeCreate", from |-> from, to |-> to, label |-> label, props |-> props]
PropertyUpdate(node, key, value) ==
    [op |-> "PropertyUpdate", node |-> node, key |-> key, value |-> value]

\* the key sort_by_key orders a group by: id, (from, to), (node, key)
SortKey(op) ==
    IF op.op = "NodeCreate" THEN <<op.id>>
    ELSE IF op.op = "EdgeCreate" THEN <<op.from, op.to>>
    ELSE <<op.node, op.key>>

\* Ord for the key tuples: lexicographic
KeyLeq(a, b) ==
    \/ a[1] < b[1]
    \/ a[1] = b[1] /\ (Len(a) = 1 \/ a[2] <= b[2])

\* slice::sort_by_key, a stable sort: an element goes behind every element
\* whose key is not greater
RECURSIVE sort_by_key(_)
sort_by_key(ops) ==
    IF ops = <<>> THEN <<>>
    ELSE LET rest == sort_by_key(Prefix(ops, Len(ops) - 1))
             x == ops[Len(ops)]
             n == Cardinality({i \in DOMAIN rest : KeyLeq(SortKey(rest[i]), SortKey(x))})
         IN  Prefix(rest, n) \o <<x>> \o Suffix(rest, n)

\* serde_json::to_string(op) as bytes: a tag and the fields, one byte each
OpBytes(op) ==
    IF op.op = "NodeCreate" THEN <<0, op.id, op.data>>
    ELSE IF op.op = "EdgeCreate" THEN <<1, op.from, op.to, op.label, op.props>>
    ELSE <<2, op.node, op.key, op.value>>

RECURSIVE ConcatBytes(_)
ConcatBytes(ops) ==
    IF ops = <<>> THEN <<>> ELSE OpBytes(Head(ops)) \o ConcatBytes(Tail(ops))

\* TraceNF::from_trace over trace.ops
from_trace(ops) ==
    LET node_ops == sort_by_key(SelectSeq(ops, LAMBDA o : o.op = "NodeCreate"))
        edge_ops == sort_by_key(SelectSeq(ops, LAMBDA o : o.op = "EdgeCreate"))
        prop_ops == sort_by_key(SelectSeq(ops, LAMBDA o : o.op = "PropertyUpdate"))
    IN  [canonical_form |-> Hash(ConcatBytes(node_ops \o edge_ops \o prop_ops)),
         commutative_groups |-> <<node_ops, edge_ops, prop_ops>>]

\* the operations and traces from_trace is driven with
TraceOps ==
    {NodeCreate(id, d) : id \in {1, 2}, d \in {0, 1}}
      \cup {EdgeCreate(1, 2, l, 0) : l \in {0, 1}}
      \cup {PropertyUpdate(1, 0, v) : v \in {0, 1}}
Traces == SeqsUpTo(TraceOps, MaxOps)

\* the traces that hold the operations of t in some order
Reorderings(t) ==
    {[i \in DOMAIN t |-> t[p[i]]] : p \in Orderings(DOMAIN t)}

\* the state before a pure function is applied to the arguments in S
InitArgs(S) ==
    /\ InitCas /\ InitGraph(MaxTs) /\ InitExec /\ InitConcur /\ InitQuery /\ now = 0
    /\ args \in S

PureFrame == UNCHANGED <<storeAndGraph, execVars, concurVars, now, args, queryVars>>

\* TraceNF::from_trace(&t) and TraceNF::from_trace(&u)
ApplyFromTrace ==
    /\ ret' = Ret("from_trace", "Ok", <<>>,
                  <<from_trace(args[1]), from_trace(args[2])>>, 0)
    /\ PureFrame

\* a trace and a trace that holds the same operations in some order
InitTrace == InitArgs(UNION {{<<t, u>> : u \in Reorderings(t)} : t \in Traces})
SpecTrace == InitTrace /\ [][ApplyFromTrace]_vars

(* ------------------------------- Manifest ------------------------------ *)
\* struct ManifestEntry
ManifestEntry(qkey, result_cid, last_accessed, access_count) ==
    [qkey |-> qkey, result_cid |-> result_cid, last_accessed |-> last_accessed,
     access_count |-> access_count]

\* struct ManifestDiff
ManifestDiff(version, timestamp, added, removed, updated) ==
    [version |-> version, timestamp |-> timestamp, added |-> added,
     removed |-> removed, updated |-> updated]

\* the keys create_diff finds added, removed and updated
AddedKeys(m, new_entries) == DOMAIN new_entries \ DOMAIN m.entries
RemovedKeys(m, new_entries) == DOMAIN m.entries \ DOMAIN new_entries
UpdatedKeys(m, new_entries) ==
    {k \in DOMAIN m.entries \cap DOMAIN new_entries :
        m.entries[k].result_cid # new_entries[k].result_cid}

\* a create_diff that never reports an update
create_diff_NoUpdates(m, new_entries, t) ==
    {ManifestDiff(m.base_version + Len(m.diffs) + 1, t, a, r, <<>>) :
        a \in Orderings({new_entries[k] : k \in AddedKeys(m, new_entries)}),
        r \in Orderings(RemovedKeys(m, new_entries))}

\* manifest.create_diff(new_entries) at time t: the diffs it may return, one
\* for every order in which the two hash maps are iterated
create_diff(m, new_entries, t) ==
    {ManifestDiff(m.base_version + Len(m.diffs) + 1, t, a, r, u) :
        a \in Orderings({new_entries[k] : k \in AddedKeys(m, new_entries)}),
        r \in Orderings(RemovedKeys(m, new_entries)),
        u \in Orderings({<<k, new_entries[k].result_cid>> :
                            k \in UpdatedKeys(m, new_entries)})}

\* for qkey in &diff.removed { entries.remove(qkey) }
RECURSIVE ApplyRemoved(_, _, _)
ApplyRemoved(entries, removed, i) ==
    IF i > Len(removed) THEN entries
    ELSE ApplyRemoved(MapRemove(entries, removed[i]), removed, i + 1)

\* for (qkey, new_cid) in &diff.updated { if let Some(e) = get_mut { .. } }
RECURSIVE ApplyUpdated(_, _, _)
ApplyUpdated(entries, updated, i) ==
    IF i > Len(updated) THEN entries
    ELSE ApplyUpdated(
           IF updated[i][1] \in DOMAIN entries
           THEN [entries EXCEPT ![updated[i][1]].result_cid = updated[i][2]]
           ELSE entries,
           updated, i + 1)

\* for entry in &diff.added { entries.insert(entry.qkey, entry) }
RECURSIVE ApplyAdded(_, _, _)
ApplyAdded(entries, added, i) ==
    IF i > Len(added) THEN entries
    ELSE ApplyAdded(MapInsert(entries, added[i].qkey, added[i]), added, i + 1)

\* manifest.apply_diff(diff)
apply_diff(m, diff) ==
    [m EXCEPT
        !.entries = ApplyAdded(ApplyUpdated(ApplyRemoved(@, diff.removed, 1),
                                            diff.updated, 1),
                               diff.added, 1),
        !.diffs = Append(@, diff)]

\* the result digests and the tables {Q -> ManifestEntry} over the keys K
ManifestCids == {Hash(<<0>>), Hash(<<1>>)}
Tables(K) ==
    UNION {[D -> ManifestCids] : D \in SUBSET K}
TableOf(f) == [k \in DOMAIN f |-> ManifestEntry(k, f[k], 0, 1)]

ManifestFrame ==
    UNCHANGED <<storeAndGraph, execVars, concurVars, now, args, plannerVars, stepVars>>

\* diff = manifest.create_diff(new_entries), for a proposed table over the
\* keys K, while the caller holds fewer than P diffs
CreateDiff(K, P) ==
    \E f \in Tables(K) :
        \E diff \in create_diff(manifest, TableOf(f), now) :
            /\ Cardinality(pending \cup {diff}) <= P
            /\ pending' = pending \cup {diff}
            /\ ret' = Ret("create_diff", "Ok", <<>>,
                          [diff |-> diff, new_entries |-> TableOf(f)], diff.version)
            /\ UNCHANGED manifest
            /\ ManifestFrame

\* manifest.apply_diff(diff) with a diff the caller holds
ApplyDiff ==
    \E diff \in pending :
        /\ Len(manifest.diffs) < MaxDiffs
        /\ manifest' = apply_diff(manifest, diff)
        /\ pending' = pending \ {diff}
        /\ ret' = Ret("apply_diff", "Ok", <<>>, <<>>, diff.version)
        /\ ManifestFrame

\* a writer that applies each diff before it creates the next one
NextDiff == CreateDiff(1..MaxQKeys, 1) \/ ApplyDiff
SpecDiff == InitStoreOnly /\ [][NextDiff]_vars

\* callers that may hold two diffs at once
NextManifest == CreateDiff({1}, 2) \/ ApplyDiff
SpecManifest == InitStoreOnly /\ [][NextManifest]_vars

(* ----------------------------- PlanSwitcher ---------------------------- *)
\* the observations record_result keeps per query key (100 in the source,
\* scaled)
StatsCap == 3

\* strings are sequences of characters
Str(chars) == chars
\* enum QueryPlan
PathFirst(path) == [variant |-> "PathFirst", arg |-> path]
TypeFirst(types) == [variant |-> "TypeFirst", arg |-> types]
MeetInMiddlePlan(split) == [variant |-> "MeetInMiddle", arg |-> split]
IndexLookup(index) == [variant |-> "IndexLookup", arg |-> index]

\* struct PlanStats
PlanStats(plan, execution_time_ms, success) ==
    [plan |-> plan, execution_time_ms |-> execution_time_ms, success |-> success]

\* [String]::join("_")
RECURSIVE Join(_)
Join(strs) ==
    IF strs = <<>> THEN <<>>
    ELSE IF Len(strs) = 1 THEN strs[1]
    ELSE strs[1] \o <<"_">> \o Join(Tail(strs))

\* PlanSwitcher::plan_key: format!("path_first_{}", path.join("_")) and so on
plan_key(plan) ==
    IF plan.variant = "PathFirst" THEN <<"path_first_">> \o Join(plan.arg)
    ELSE IF plan.variant = "TypeFirst" THEN <<"type_first_">> \o Join(plan.arg)
    ELSE IF plan.variant = "MeetInMiddle" THEN <<"meet_middle_">> \o plan.arg
    ELSE <<"index_lookup_">> \o plan.arg

\* a mean as the pair (sum, count); count 0 stands for f64::INFINITY
RECURSIVE SumTimes(_, _)
SumTimes(stats, i) ==
    IF i > Len(stats) THEN 0 ELSE stats[i].execution_time_ms + SumTimes(stats, i + 1)
MeanLt(a, b) == a.n > 0 /\ (b.n = 0 \/ a.sum * b.n < b.sum * a.n)

\* PlanSwitcher::average_time_for_plan
average_time_for_plan(key, all_stats) ==
    LET own == SelectSeq(all_stats, LAMBDA s : plan_key(s.plan) = key /\ s.success)
    IN  [sum |-> SumTimes(own, 1), n |-> Len(own)]

\* the loop of select_best_plan from the i-th plan on
RECURSIVE BestLoop(_, _, _, _, _)
BestLoop(stats, available_plans, i, best_plan, best_time) ==
    IF i > Len(available_plans) THEN best_plan
    ELSE LET avg_time == average_time_for_plan(plan_key(available_plans[i]), stats)
         IN  IF MeanLt(avg_time, best_time)
             THEN BestLoop(stats, available_plans, i + 1, available_plans[i], avg_time)
             ELSE BestLoop(stats, available_plans, i + 1, best_plan, best_time)

\* a selection that has no plan to give when the query key has no history
select_best_plan_NoDefault(all, query_key, available_plans) ==
    IF query_key \in DOMAIN all
    THEN BestLoop(all[query_key], available_plans, 1, available_plans[1],
                  [sum |-> 0, n |-> 0])
    ELSE PathFirst(<<>>)

\* PlanSwitcher::select_best_plan on a non-empty plan list
select_best_plan(all, query_key, available_plans) ==
    IF query_key \in DOMAIN all
    THEN BestLoop(all[query_key], available_plans, 1, available_plans[1],
                  [sum |-> 0, n |-> 0])
    ELSE available_plans[1]

\* PlanSwitcher::select_plan: the plans it may return. rand::random() may
\* fall on either side of epsilon = 0.1, and choose may take any element
select_plan(all, query_key, available_plans, explore) ==
    IF available_plans = <<>> THEN {PathFirst(<<>>)}
    ELSE IF explore THEN {available_plans[i] : i \in DOMAIN available_plans}
    ELSE {select_best_plan(all, query_key, available_plans)}

\* PlanSwitcher::record_result
record_result(all, query_key, plan, execution_time_ms, success) ==
    LET pushed == Append(IF query_key \in DOMAIN all THEN all[query_key] ELSE <<>>,
                         PlanStats(plan, execution_time_ms, success))
    IN  MapInsert(all, query_key,
                  IF Len(pushed) > StatsCap THEN Tail(pushed) ELSE pushed)

\* the plans, plan lists, query keys and latencies the switcher is driven with
Plans == {PathFirst(<<Str(<<"a">>), Str(<<"b">>)>>), PathFirst(<<Str(<<"a", "_", "b">>)>>),
          TypeFirst(<<Str(<<"a">>)>>)}
PlanLists == SeqsUpTo(Plans, MaxPlans)
QueryKeys == {"q", "r"}
Latencies == {1, 3}

PlannerFrame ==
    UNCHANGED <<storeAndGraph, execVars, concurVars, now, args, coreVars, stepVars>>

\* switcher.select_plan(query_key, &available_plans)
SelectPlan(Q, L) ==
    \E query_key \in Q, available_plans \in L, explore \in BOOLEAN :
        \E plan \in select_plan(plan_stats, query_key, available_plans, explore) :
            /\ ret' = Ret("select_plan", "Ok", <<>>,
                          [plan |-> plan, query_key |-> query_key,
                           available_plans |-> available_plans, explore |-> explore], 0)
            /\ UNCHANGED plannerVars
            /\ PlannerFrame

\* switcher.record_result(query_key, &plan, execution_time_ms, n, success)
RecordResult(Q) ==
    \E query_key \in Q, plan \in Plans, execution_time_ms \in Latencies,
       success \in BOOLEAN :
        /\ plan_stats' = record_result(plan_stats, query_key, plan,
                                       execution_time_ms, success)
        /\ ret' = Ret("record_result", "Ok", <<>>, <<>>, 0)
        /\ UNCHANGED <<snapshots, access_counts>>
        /\ PlannerFrame

NextPlan == SelectPlan(QueryKeys, PlanLists) \/ RecordResult({"q"})
SpecPlan == InitStoreOnly /\ [][NextPlan]_vars

(* ----------------------------- MeetInMiddle ---------------------------- *)
\* CostEstimator::estimate_cost in twentieths: path.len() * 2.0, times 1.0
\* without types and types.len() * 0.5 with, times 0.1
estimate_cost(path, types) ==
    Len(path) * 2 * (IF types = <<>> THEN 2 ELSE Len(types))

\* left_cost + right_cost + 1.0 at a split point, in fortieths; err[k] is
\* what the rounding of the f64 operations adds at split point k
total_cost(query_path, err, split_point) ==
    2 * (estimate_cost(Prefix(query_path, split_point), <<>>)
           + estimate_cost(Suffix(query_path, split_point), <<>>) + 20)
      + err[split_point]

\* the loop of split_query from split_point on; best_cost {} is f64::INFINITY
RECURSIVE SplitLoop(_, _, _, _, _)
SplitLoop(query_path, err, split_point, best_split, best_cost) ==
    IF split_point >= Len(query_path) THEN [split |-> best_split, cost |-> best_cost]
    ELSE LET total == total_cost(query_path, err, split_point)
         IN  IF best_cost = {} \/ \E c \in best_cost : total < c
             THEN SplitLoop(query_path, err, split_point + 1, split_point, {total})
             ELSE SplitLoop(query_path, err, split_point + 1, best_split, best_cost)

\* struct QuerySplit
QuerySplit(left_path, right_path, join_key, estimated_cost) ==
    [left_path |-> left_path, right_path |-> right_path, join_key |-> join_key,
     estimated_cost |-> estimated_cost]

\* a split that takes the first segment of the right half as the join key
split_query_JoinRight(query_path, err) ==
    IF Len(query_path) < 3 THEN None
    ELSE LET best == SplitLoop(query_path, err, 1, 0, {})
         IN  Some(QuerySplit(Prefix(query_path, best.split),
                             Suffix(query_path, best.split),
                             query_path[best.split + 1],
                             CHOOSE c \in best.cost : TRUE))

\* MeetInMiddle::split_query(query_path, &[])
split_query(query_path, err) ==
    IF Len(query_path) < 3 THEN None
    ELSE LET best == SplitLoop(query_path, err, 1, 0, {})
         IN  Some(QuerySplit(Prefix(query_path, best.split),
                             Suffix(query_path, best.split),
                             query_path[best.split],
                             CHOOSE c \in best.cost : TRUE))

\* the paths split_query is driven with, each with the rounding of its sums
Segments == {"user", "posts"}
QueryPaths == SeqsUpTo(Segments, MaxPath)
Roundings(query_path) == [1..(Len(query_path) - 1) -> {0, 1}]

ApplySplitQuery ==
    /\ ret' = Ret("split_query", "Ok", <<>>, split_query(args[1], args[2]), 0)
    /\ PureFrame

InitSplit == InitArgs(UNION {{<<q, e>> : e \in Roundings(q)} : q \in QueryPaths})
SpecSplit == InitSplit /\ [][ApplySplitQuery]_vars

(* ---------------------------- SnapshotManager -------------------------- *)
\* the while loop of create_snapshot: drop the first key of the BTreeMap
\* until there is room
RECURSIVE EvictLoop(_, _)
EvictLoop(snaps, counts) ==
    IF Cardinality(DOMAIN snaps) >= max_snapshots
    THEN LET oldest_ts == CHOOSE k \in DOMAIN snaps : \A j \in DOMAIN snaps : k <= j
         IN  EvictLoop(MapRemove(snaps, oldest_ts), MapRemove(counts, oldest_ts))
    ELSE [snapshots |-> snaps, access_counts |-> counts]

\* the timestamps and digests the manager is driven with
SnapTimes == 1..3
SnapCids == {Hash(<<0>>), Hash(<<1>>)}

SnapshotFrame == UNCHANGED <<storeAndGraph, execVars, concurVars, now, args, coreVars,
                             plan_stats, stepVars>>

\* manager.get_snapshot(as_of)
GetSnapshot(T) ==
    \E as_of \in T :
        /\ as_of \in DOMAIN access_counts => access_counts[as_of] < MaxAccess
        /\ access_counts' =
              MapInsert(access_counts, as_of,
                        IF as_of \in DOMAIN access_counts
                        THEN access_counts[as_of] + 1 ELSE 1)
        /\ ret' = Ret("get_snapshot", "Ok", <<>>,
                      {snapshots[k] : k \in {j \in DOMAIN snapshots :
                          /\ j <= as_of
                          /\ \A i \in DOMAIN snapshots : i <= as_of => i <= j}},
                      as_of)
        /\ UNCHANGED snapshots
        /\ SnapshotFrame

\* manager.create_snapshot(as_of, data_cid)
CreateSnapshot(T, C) ==
    \E as_of \in T, data_cid \in C :
        \E r \in {EvictLoop(snapshots, access_counts)} :
            /\ snapshots' = MapInsert(r.snapshots, as_of, data_cid)
            /\ access_counts' = r.access_counts
            /\ ret' = Ret("create_snapshot", "Ok", data_cid, <<>>, as_of)
            /\ SnapshotFrame

NextSnapshot == GetSnapshot(SnapTimes) \/ CreateSnapshot(SnapTimes, SnapCids)
SpecSnapshot == InitStoreOnly /\ [][NextSnapshot]_vars

(* ----------------------------- LeaseManager ---------------------------- *)
\* struct LeaseInfo
LeaseInfo(resource_id, holder, permissions, expires_at, auto_renew) ==
    [resource_id |-> resource_id, holder |-> holder, permissions |-> permissions,
     expires_at |-> expires_at, auto_renew |-> auto_renew]

\* a lease that is already expired when the clock reaches expires_at
LeaseIsExpired_AtExpiry(info, t) == t >= info.expires_at

\* now > info.expires_at
LeaseIsExpired(info, t) == t > info.expires_at

LeaseFrame == UNCHANGED <<storeAndGraph, execVars, resources, next_txn_id, txns,
                          trace_log, recorders, closure_runs, now, args, queryVars>>

\* lm.grant_lease(lease_id, info)
GrantLease(L, I) ==
    \E lease_id \in L, info \in I :
        /\ active_leases' = MapInsert(active_leases, lease_id, info)
        /\ ret' = Ret("grant_lease", "Ok", <<>>, <<>>, lease_id)
        /\ LeaseFrame

\* lm.check_lease(lease_id); the result carries the time the call read
CheckLease(L) ==
    \E lease_id \in L :
        /\ ret' = IF lease_id \in DOMAIN active_leases
                  THEN IF LeaseIsExpired(active_leases[lease_id], now)
                       THEN Ret("check_lease", "LeaseExpired", <<>>,
                                [at |-> now, lease |-> {}], lease_id)
                       ELSE Ret("check_lease", "Ok", <<>>,
                                [at |-> now, lease |-> {active_leases[lease_id]}], lease_id)
                  ELSE Ret("check_lease", "LeaseExpired", <<>>,
                           [at |-> now, lease |-> {}], lease_id)
        /\ UNCHANGED active_leases
        /\ LeaseFrame

\* lm.revoke_lease(lease_id)
RevokeLease(L) ==
    \E lease_id \in L :
        /\ active_leases' = MapRemove(active_leases, lease_id)
        /\ ret' = Ret("revoke_lease", "Ok", <<>>, <<>>, lease_id)
        /\ LeaseFrame

\* a renewal that does not look at the auto_renew flag
renew_lease_IgnoresFlag(leases, lease_id, new_expiry) ==
    IF lease_id \in DOMAIN leases
    THEN [leases |-> [leases EXCEPT ![lease_id].expires_at = new_expiry], tag |-> "Ok"]
    ELSE [leases |-> leases, tag |-> "LeaseExpired"]

\* renew_lease on the lease table: the table afterwards and the result
renew_lease(leases, lease_id, new_expiry) ==
    IF lease_id \in DOMAIN leases
    THEN IF leases[lease_id].auto_renew
         THEN [leases |-> [leases EXCEPT ![lease_id].expires_at = new_expiry],
               tag |-> "Ok"]
         ELSE [leases |-> leases, tag |-> "PermissionDenied"]
    ELSE [leases |-> leases, tag |-> "LeaseExpired"]

\* lm.renew_lease(lease_id, new_expiry); the result carries the expiry asked for
RenewLease(L, E) ==
    \E lease_id \in L, new_expiry \in E :
        /\ \E r \in {renew_lease(active_leases, lease_id, new_expiry)} :
              /\ active_leases' = r.leases
              /\ ret' = Ret("renew_lease", r.tag, <<>>,
                            [new_expiry |-> new_expiry], lease_id)
        /\ LeaseFrame

\* the lease ids, expiry times and leases the manager is driven with
LeaseIds == {1, 2}
Expiries == 0..MaxNow
LeaseInfos == {LeaseInfo(1, "test_user", READ + WRITE, e, r) : e \in Expiries, r \in BOOLEAN}

NextLease ==
    \/ GrantLease(LeaseIds, LeaseInfos)
    \/ CheckLease(LeaseIds)
    \/ RevokeLease(LeaseIds)
    \/ RenewLease(LeaseIds, Expiries)
    \/ Tick
SpecLease == InitStoreOnly /\ [][NextLease]_vars

(* ------------------------ CapTracer, SafeExecutor ---------------------- *)
\* the number of entries record_operation keeps, scaled down
LogCap == 3

\* CapTraceEntry
CapTraceEntry(timestamp, operation, actor, resource, capability, success) ==
    [timestamp |-> timestamp, operation |-> operation, actor |-> actor,
     resource |-> resource, capability |-> capability, success |-> success,
     details |-> IF success THEN "success" ELSE "failed"]

\* a log that drops the entry just pushed when it is full
PushAndTrim_DropsNewest(log, entry) ==
    IF Len(log) + 1 > LogCap THEN log ELSE Append(log, entry)

\* log.push(entry); if log.len() > cap { log.remove(0) }
PushAndTrim(log, entry) ==
    IF Len(log) + 1 > LogCap THEN Tail(Append(log, entry)) ELSE Append(log, entry)

\* record_operation up to the point where it asks for the write lock: the
\* entry is built with the time read now
RecordBuild(P, C) ==
    \E p \in P, resource \in C :
        /\ recorders.entry[p] = {}
        /\ Len(recorders.recorded)
             + Cardinality({q \in Recorders : recorders.entry[q] # {}}) < MaxRecorded
        /\ recorders' = [recorders EXCEPT !.entry[p] =
               {CapTraceEntry(now, "read", p, resource, MkCap(0, MaxCapLen, READ, 0), TRUE)}]
        /\ UNCHANGED <<storeAndGraph, execVars, resources, next_txn_id, txns,
                       active_leases, trace_log, closure_runs, now, args, ret, queryVars>>

\* record_operation under the write lock: push, trim, release
RecordPush(P) ==
    \E p \in P :
        /\ recorders.entry[p] # {}
        /\ \E entry \in recorders.entry[p] :
              /\ trace_log' = PushAndTrim(trace_log, entry)
              /\ recorders' = [entry |-> [recorders.entry EXCEPT ![p] = {}],
                               recorded |-> Append(recorders.recorded, entry)]
        /\ UNCHANGED <<storeAndGraph, execVars, resources, next_txn_id, txns,
                       active_leases, closure_runs, now, args, ret, queryVars>>

NextTracer == RecordBuild(Recorders, TxnCids) \/ RecordPush(Recorders) \/ Tick
SpecTracer == InitStoreOnly /\ [][NextTracer]_vars

\* the user closures execute_safe is driven with: one that returns Ok, one
\* that returns an error, one that creates an edge in the graph and returns Ok
Closures == {"ok", "err", "create_edge"}
ClosureOk(closure) == closure # "err"

\* the edge the third closure creates: graph.create_edge(1, 2, 1, props)
ClosureProps == <<1>>
ClosureCanRun(closure) ==
    closure = "create_edge" => TotalEdges < MaxEdges /\ InBounds(CasState, ClosureProps)

\* what running the closure does to the store and the graph
ClosureEffect(closure) ==
    IF closure = "create_edge"
    THEN \E r \in {Put(CasState, ClosureProps, EdgeKind, "Small", "ok", 0)} :
            /\ SetCas(r.s)
            /\ adjacency' = EntryPush(adjacency, 1,
                                ForwardEntry(1, 2, 1, r.cid, current_timestamp))
            /\ reverse_adjacency' = EntryPush(reverse_adjacency, 2,
                                ReverseEntry(1, 2, 1, r.cid, current_timestamp))
            /\ UNCHANGED <<rid_to_cid, temporal_rid_mappings, postings,
                           current_timestamp, created, faults>>
    ELSE UNCHANGED storeAndGraph

\* what execute_safe reports: how its call ended, whether the closure ran and
\* what became of the transaction
ExecRet(tag, actor, operation, resource, ran, txn_end) ==
    Ret("execute_safe", tag, resource,
        [actor |-> actor, operation |-> operation, ran |-> ran, txn |-> txn_end],
        next_txn_id)

\* executor.execute_safe(actor, operation, &resource, closure); the closure
\* takes `took` units of time
ExecuteSafe(A, O, C) ==
    \E actor \in A, operation \in O, resource \in C, closure \in Closures,
       took \in {0, timeout_ms + 1} :
        /\ next_txn_id <= MaxCalls
        /\ next_txn_id' = next_txn_id + 1
        /\ UNCHANGED <<resources, txns, active_leases, execVars, args, queryVars>>
        /\ IF resource \notin DOMAIN resources
           THEN \* acquire_shared fails: the ? operator returns, the
                \* transaction is dropped
                /\ took = 0 /\ closure = "ok"
                /\ ret' = ExecRet("OwnershipViolation", actor, operation, resource,
                                  FALSE, "dropped")
                /\ UNCHANGED <<storeAndGraph, trace_log, recorders, closure_runs, now>>
           ELSE /\ now + took <= MaxNow
                /\ ClosureCanRun(closure)
                /\ ClosureEffect(closure)
                /\ closure_runs' = closure_runs + 1
                /\ now' = now + took
                /\ \E entry \in {CapTraceEntry(now + took, operation, actor, resource,
                                    resources[resource].cap, ClosureOk(closure))} :
                      /\ trace_log' = PushAndTrim(trace_log, entry)
                      /\ recorders' = [recorders EXCEPT !.recorded = Append(@, entry)]
                /\ ret' =
                      IF ~ClosureOk(closure)
                      THEN ExecRet("CapCheckFailed", actor, operation, resource,
                                   TRUE, "aborted")
                      ELSE IF is_expired(TransactionNew(next_txn_id, now), now + took)
                      THEN ExecRet("TransactionConflict", actor, operation, resource,
                                   TRUE, "commit_failed")
                      ELSE ExecRet("Ok", actor, operation, resource, TRUE, "committed")

\* the callers and operations the executor is driven with
Actors == {"alice"}
Operations == {"read", "write"}

NextExec == RegisterResource(TxnCids, TxnCaps) \/ ExecuteSafe(Actors, Operations, TxnCids)
SpecExec == InitStoreOnly /\ [][NextExec]_vars

(* ========================== claims: PackCAS ============================ *)

\* C1. CAS round trip: once put(b, kind, band) has returned digest D, get(D)
\* returns exactly b.
C1_RoundTrip ==
    (ret.op = "put" /\ ret.tag = "Ok") =>
        Get(CasState, ret.cid) = {GetOk(ret.data)}

\* C2. No silent corruption on read: get(D) returns bytes whose digest is D,
\* or fails; it never returns bytes that hash to another digest.
C2_NoSilentCorruption ==
    \A cid \in Cids :
        \A r \in Get(CasState, cid) : r.tag = "Ok" => Hash(r.data) = cid

\* C9. Deduplication: a put of bytes whose digest is already stored returns
\* that digest and appends no content-index record, also after a reopen, so
\* no two records of cidx.dat carry the same digest.
C9_OneRecordPerDigest ==
    /\ \A i, j \in 1..Len(cidx_file) :
          cidx_file[i].cid = cidx_file[j].cid => i = j
    /\ (ret.op = "put" /\ ret.tag = "Ok") => ret.cid = Hash(ret.data)

\* C9 witness: after a reopen (every pack is known by its default band and no
\* writer is open), a put returned Ok for a digest that an earlier put stored
C9_Witness ==
    /\ ret.op = "put" /\ ret.tag = "Ok"
    /\ Len(cidx_file) >= 2
    /\ \E i \in 1..Len(cidx_file) : cidx_file[i].cid = ret.cid
    /\ ~current_pack.open
    /\ DOMAIN packs # {}
    /\ \A p \in DOMAIN packs : packs[p].band = "Blob"

\* the checksum of a record as stored on disk matches its fields
CrcGood(rec) ==
    rec.crc = Crc32(rec.cid, rec.pack_id, rec.offset, rec.len, rec.kind, rec.flags)

GoodRecords == {i \in 1..Len(cidx_file) : CrcGood(cidx_file[i])}

\* C10. Bloom soundness of the store: a digest the Bloom hierarchy reports
\* absent (globally, for its pack, or for its shard) is carried by no record
\* whose CRC is valid; and right after open the filters hold exactly the
\* digests of the CRC-valid records, a record with a bad CRC adding to none.
C10_BloomSound ==
    /\ \A i \in GoodRecords :
          LET rec == cidx_file[i]
          IN  /\ BloomContains(bloom_filters, rec.cid, None, None)
              /\ BloomContains(bloom_filters, rec.cid, Some(rec.pack_id), None)
              /\ BloomContains(bloom_filters, rec.cid, Some(rec.pack_id),
                               Some(<<TypePart(rec.kind), 0>>))
              /\ rec.pack_id \in DOMAIN bloom_filters.pack_filters
              /\ <<TypePart(rec.kind), 0>> \in DOMAIN bloom_filters.shard_filters
    /\ ret.op = "open" =>
          /\ bloom_filters.global =
                UNION {BloomIndexes(cidx_file[i].cid) : i \in GoodRecords}
          /\ DOMAIN bloom_filters.pack_filters =
                {cidx_file[i].pack_id : i \in GoodRecords}
          /\ \A p \in DOMAIN bloom_filters.pack_filters :
                bloom_filters.pack_filters[p] =
                   UNION {BloomIndexes(cidx_file[i].cid) :
                             i \in {j \in GoodRecords : cidx_file[j].pack_id = p}}
          /\ DOMAIN bloom_filters.shard_filters =
                {<<TypePart(cidx_file[i].kind), 0>> : i \in GoodRecords}
          /\ \A s \in DOMAIN bloom_filters.shard_filters :
                bloom_filters.shard_filters[s] =
                   UNION {BloomIndexes(cidx_file[i].cid) :
                             i \in {j \in GoodRecords :
                                      <<TypePart(cidx_file[j].kind), 0>> = s}}

\* C10 witness: the store was reopened on an index holding a record with a bad
\* CRC, whose digest the Bloom filter reports absent, beside a valid record
C10_Witness ==
    /\ ret.op = "open"
    /\ GoodRecords # {}
    /\ \E i \in 1..Len(cidx_file) :
          /\ i \notin GoodRecords
          /\ ~BloomContains(bloom_filters, cidx_file[i].cid, None, None)


(* ========================== claims: GraphDB ============================ *)

\* the payload a digest names (Hash is injective on the payloads stored)
ValueOf(cid) == CHOOSE d \in NodeData : Hash(d) = cid

\* the points of R's timeline whose key is at most t
PointsUpTo(rid, t) ==
    IF rid \notin DOMAIN temporal_rid_mappings THEN {}
    ELSE {temporal_rid_mappings[rid][i] : i \in
             {j \in 1..Len(temporal_rid_mappings[rid]) :
                 temporal_rid_mappings[rid][j].ts <= t}}

\* the points among them with the largest key
LatestUpTo(rid, t) ==
    {p \in PointsUpTo(rid, t) : \A q \in PointsUpTo(rid, t) : q.ts <= p.ts}

ReadTimes == 0..(MaxTs + 1)

\* C3. Temporal read: get_node_at(R, t) returns the version stored under the
\* largest timeline key <= t, and nothing when R has no key <= t.
C3_TemporalRead ==
    \A rid \in Rids, t \in ReadTimes :
        get_node_at(CasState, rid, t) =
            IF LatestUpTo(rid, t) = {} THEN {ReadNone}
            ELSE {GetOk(ValueOf(p.cid)) : p \in LatestUpTo(rid, t)}

\* the digest selection alone: the entry with the largest key <= t
C3_Selection ==
    \A rid \in Rids, t \in ReadTimes :
        TimelineCidAt(temporal_rid_mappings, rid, t) = {p.cid : p \in LatestUpTo(rid, t)}

\* the points of R's timeline in a given map
PointsOf(temporal, rid) ==
    IF rid \notin DOMAIN temporal THEN {}
    ELSE {temporal[rid][i] : i \in 1..Len(temporal[rid])}

\* C4. The timeline is append-only: every (timestamp, digest) point of a
\* node's timeline is still there, with the same digest, after any call.
C4_AppendOnly ==
    [][\A rid \in Rids :
          PointsOf(temporal_rid_mappings, rid) \subseteq PointsOf(temporal_rid_mappings', rid)]_vars

\* C8. Resource ids are allocated monotonically and uniquely: the R a
\* create_node returns is greater than every R returned before and was not
\* mapped in the store.
C8_RidMonotonicUnique ==
    [][created' # created =>
          LET rid == created'[Len(created')]
          IN  /\ \A i \in 1..Len(created) : created[i] < rid
              /\ rid \notin DOMAIN rid_to_cid]_vars

\* the inputs traversals are checked on
LabelFilters == {None, Some({1})}
AsOfs == {None, Some(1)}
Depths == 0..MaxDepth

\* breadth-first reference: the loop of traverse with a first-in first-out queue
RECURSIVE BfsLoop(_, _, _, _, _, _, _)
BfsLoop(adj, queue, visited, result, labels, max_depth, as_of) ==
    IF queue = <<>> THEN result
    ELSE LET current == queue[1][1]
             depth == queue[1][2]
             rest == Tail(queue)
         IN  IF depth > max_depth \/ current \in visited
             THEN BfsLoop(adj, rest, visited, result, labels, max_depth, as_of)
             ELSE BfsLoop(
                    adj,
                    IF depth < max_depth /\ current \in DOMAIN adj
                    THEN rest \o SelectSeq(
                            [i \in 1..Len(adj[current]) |->
                                IF \/ \E t \in as_of : adj[current][i].timestamp > t
                                   \/ \E ls \in labels : adj[current][i].label \notin ls
                                THEN <<>>
                                ELSE <<adj[current][i].target, depth + 1>>],
                            LAMBDA x : x # <<>>)
                    ELSE rest,
                    visited \cup {current},
                    Append(result, <<current, depth>>),
                    labels, max_depth, as_of)

BfsRef(adj, from, labels, max_depth, as_of) ==
    BfsLoop(adj, <<<<from, 0>>>>, {}, <<>>, labels, max_depth, as_of)

\* C5. traverse is breadth-first: its result is the reference BFS visit
\* sequence, every node paired with its shortest hop distance.
C5_BreadthFirst ==
    \A from \in Rids, labels \in LabelFilters, max_depth \in Depths, as_of \in AsOfs :
        traverse(adjacency, from, labels, max_depth, as_of) =
            BfsRef(adjacency, from, labels, max_depth, as_of)

\* an edge of the graph that the filters admit
Admissible(edge, labels, as_of) ==
    /\ \A t \in as_of : edge.timestamp <= t
    /\ \A ls \in labels : edge.label \in ls

\* the properties C6 asks of one traversal result
BoundedAndFiltered(result, from, labels, max_depth, as_of) ==
    /\ \A i, j \in 1..Len(result) : result[i][1] = result[j][1] => i = j
    /\ \A i \in 1..Len(result) : result[i][2] <= max_depth
    /\ result[1] = <<from, 0>>
    /\ \A i \in 2..Len(result) :
          \E j \in 1..(i - 1) :
             /\ result[j][2] + 1 = result[i][2]
             /\ result[j][1] \in DOMAIN adjacency
             /\ \E k \in 1..Len(adjacency[result[j][1]]) :
                   /\ adjacency[result[j][1]][k].target = result[i][1]
                   /\ Admissible(adjacency[result[j][1]][k], labels, as_of)

\* C6. traverse bounds and filters: the result holds each R at most once, no
\* depth above max_depth, the start node at depth 0, and every other node was
\* reached over an edge that the label and as_of filters admit.
C6_BoundsAndFilters ==
    \A from \in Rids, labels \in LabelFilters, max_depth \in Depths, as_of \in AsOfs :
        BoundedAndFiltered(traverse(adjacency, from, labels, max_depth, as_of),
                           from, labels, max_depth, as_of)

\* C6 witness: a filtered traversal reaches a second node while the start
\* node also has an edge the label filter excludes and one as_of excludes
C6_Witness ==
    \E from \in Rids :
        /\ Len(traverse(adjacency, from, Some({1}), MaxDepth, Some(1))) >= 2
        /\ from \in DOMAIN adjacency
        /\ \E k \in 1..Len(adjacency[from]) : adjacency[from][k].label # 1
        /\ \E k \in 1..Len(adjacency[from]) : adjacency[from][k].timestamp > 1

\* how often an entry occurs in a list
Count(list, entry) == Cardinality({i \in 1..Len(list) : list[i] = entry})
ListOf(map, k) == IF k \in DOMAIN map THEN map[k] ELSE <<>>

C11_AdaptationSound ==
    \A e \in inserted :
        AdaptiveContains(adaptive, e.cid, Some(e.pack_id), Some(e.shard))

(* ========================= claims: capabilities ======================== *)

\* the permission bits of a mask
PermBits(p) == {i \in 0..MaxPerms : (p \div (2 ^ i)) % 2 = 1}

\* C12. Capability meet: cap_flat_map composes the outer capability
\* [b1, l1, p1] and the inner one [b2, l2, p2] into base = max(b1, b2),
\* length = min(b1 + l1, b2 + l2) - base and perms = p1 AND p2 (stated for
\* ranges that meet, where the length is not negative).
C12_CapabilityMeet ==
    ret.op = "cap_flat_map" =>
        LET c1 == args[1]
            c2 == args[2]
            base == IF c1.base >= c2.base THEN c1.base ELSE c2.base
            e1 == c1.base + c1.len
            e2 == c2.base + c2.len
            end == IF e1 <= e2 THEN e1 ELSE e2
        IN  base <= end =>
               /\ ret.data.base = base
               /\ ret.data.len = end - base
               /\ PermBits(ret.data.perms) = PermBits(c1.perms) \cap PermBits(c2.perms)

(* ========================= claims: transactions ======================== *)

\* transaction id holds resource cid through the call `how`
Holds(id, cid, how) ==
    \E k \in 1..Len(txns[id].borrowed_resources) :
        /\ txns[id].borrowed_resources[k].cid = cid
        /\ txns[id].acquired[k] = how

\* C14. Ownership discipline: no two live transactions hold the same
\* resource through acquire_exclusive, and none holds it through
\* acquire_exclusive while another holds it through acquire_shared.
C14_OwnershipDiscipline ==
    \A i, j \in DOMAIN txns : \A cid \in TxnCids :
        (i # j /\ Holds(i, cid, "exclusive")) =>
            /\ ~Holds(j, cid, "exclusive")
            /\ ~Holds(j, cid, "shared")

\* the entries of a transaction, owned and borrowed
EntriesOf(txn) ==
    {txn.owned_resources[k] : k \in 1..Len(txn.owned_resources)}
        \cup {txn.borrowed_resources[k] : k \in 1..Len(txn.borrowed_resources)}

\* C15. check_write_perm(D) returns Ok if and only if some entry of the
\* transaction has digest D and a capability that includes WRITE, and
\* PermissionDenied in every other case.
C15_CheckWritePerm ==
    \A id \in DOMAIN txns : \A cid \in TxnCids :
        /\ check_write_perm(txns[id], cid) \in {"Ok", "PermissionDenied"}
        /\ check_write_perm(txns[id], cid) = "Ok" <=>
              \E e \in EntriesOf(txns[id]) : e.cid = cid /\ 1 \in PermBits(e.cap.perms)

\* C16. Transaction lifecycle: acquire_exclusive on a freshly begun
\* transaction, for a resource registered with READ and WRITE, succeeds.
C16_Lifecycle ==
    [][(/\ ret'.op = "acquire_exclusive"
        /\ ret'.rid \in DOMAIN txns
        /\ txns[ret'.rid].owned_resources = <<>>
        /\ txns[ret'.rid].borrowed_resources = <<>>
        /\ ret'.cid \in DOMAIN resources
        /\ {0, 1} \subseteq PermBits(resources[ret'.cid].cap.perms))
       => ret'.tag = "Ok"]_vars

\* C17. Commit of a timed-out transaction: commit_transaction returns
\* TransactionConflict exactly when the elapsed time exceeds the timeout and
\* Ok otherwise; a transaction passed to commit or abort is gone afterwards,
\* and no later transaction gets its id.
C17_CommitTimeout ==
    [][/\ \A id \in DOMAIN txns' : id \in DOMAIN txns \/ id >= next_txn_id
       /\ next_txn_id' >= next_txn_id
       /\ \A id \in DOMAIN txns : id < next_txn_id
       /\ (ret'.op \in {"commit_transaction", "abort_transaction"} /\ txns' # txns) =>
             /\ ret'.rid \in DOMAIN txns
             /\ ret'.rid \notin DOMAIN txns'
             /\ ret'.op = "commit_transaction" =>
                   ret'.tag = IF now - txns[ret'.rid].start_time > timeout_ms
                              THEN "TransactionConflict" ELSE "Ok"]_vars

\* C17 witness: a commit has returned TransactionConflict, another
\* transaction is still live
C17_Witness ==
    /\ ret.op = "commit_transaction" /\ ret.tag = "TransactionConflict"
    /\ ret.rid \notin DOMAIN txns
    /\ DOMAIN txns # {}

(* ========================= claims: SafeExecutor ======================== *)

\* the step is an execute_safe call (the only call here that begins a
\* transaction)
IsExecuteSafe == next_txn_id' # next_txn_id

\* C13. Permission enforcement without side effects: execute_safe for a
\* write operation on a resource whose registered capability lacks WRITE
\* returns PermissionDenied, does not run the closure, and leaves the graph
\* adjacency and the content index unchanged.
C13_WriteDenied ==
    [][(/\ IsExecuteSafe
        /\ ret'.data.operation = "write"
        /\ ret'.cid \in DOMAIN resources
        /\ 1 \notin PermBits(resources[ret'.cid].cap.perms))
       => /\ ret'.tag = "PermissionDenied"
          /\ closure_runs' = closure_runs
          /\ adjacency' = adjacency
          /\ cidx_file' = cidx_file]_vars

\* C18. Audit of outcomes: every execute_safe call that returns leaves
\* exactly one new audit entry for its (actor, operation, resource) whose
\* success flag tells whether the call returned Ok; a call that returns an
\* error has its transaction aborted.
C18_AuditOfOutcomes ==
    [][IsExecuteSafe =>
          /\ Len(trace_log') > 0
          /\ \E entry \in {trace_log'[Len(trace_log')]} :
                /\ trace_log' \in {Append(trace_log, entry), Tail(Append(trace_log, entry))}
                /\ entry.actor = ret'.data.actor
                /\ entry.operation = ret'.data.operation
                /\ entry.resource = ret'.cid
                /\ entry.success = (ret'.tag = "Ok")
          /\ ret'.tag # "Ok" => ret'.data.txn = "aborted"]_vars

(* =========================== claims: CapTracer ========================= *)

\* the last n elements of a sequence
LastN(s, n) == IF Len(s) <= n THEN s ELSE SubSeq(s, Len(s) - n + 1, Len(s))

\* C19. Bounded audit log: the log never holds more than its cap of
\* entries, and the entries it holds are the most recently recorded ones,
\* in recording order, also when record_operation calls overlap.
C19_BoundedLog ==
    /\ Len(trace_log) <= LogCap
    /\ trace_log = LastN(recorders.recorded, LogCap)

\* more entries were recorded than the log keeps, by overlapping calls whose
\* push order differs from the order of their timestamps
C19_Witness ==
    /\ Len(recorders.recorded) > LogCap
    /\ Len(trace_log) = LogCap
    /\ \E i \in 1..(Len(trace_log) - 1) :
          /\ trace_log[i].timestamp > trace_log[i + 1].timestamp
          /\ trace_log[i].actor # trace_log[i + 1].actor

(* ========================== claims: LeaseManager ======================= *)

\* what the last check_lease call returned, against the lease table (which
\* nothing has changed since, as any other call replaces ret)
CheckedRight ==
    ret.op = "check_lease" =>
        IF ret.rid \in DOMAIN active_leases
             /\ ret.data.at <= active_leases[ret.rid].expires_at
        THEN ret.tag = "Ok" /\ ret.data.lease = {active_leases[ret.rid]}
        ELSE ret.tag = "LeaseExpired" /\ ret.data.lease = {}

\* C20. Lease check: check_lease(id) returns the lease exactly when it is
\* in the table and now <= expires_at, and LeaseExpired otherwise, leaving
\* the lease table unchanged; revoke_lease(id) always succeeds and removes
\* the lease, and an id comes back into the table only by grant_lease(id),
\* so that after a revoke check_lease(id) fails until the id is granted again.
C20_LeaseCheck ==
    [][/\ CheckedRight'
       /\ ret'.op = "check_lease" => active_leases' = active_leases
       /\ ret'.op = "revoke_lease" =>
             ret'.tag = "Ok" /\ ret'.rid \notin DOMAIN active_leases'
       /\ \A id \in DOMAIN active_leases' \ DOMAIN active_leases :
             ret'.op = "grant_lease" /\ ret'.rid = id]_vars

\* a check of an expired lease returned LeaseExpired and the lease is still
\* in the table
C20_Witness ==
    /\ ret.op = "check_lease"
    /\ ret.tag = "LeaseExpired"
    /\ ret.rid \in DOMAIN active_leases
    /\ ret.data.at > active_leases[ret.rid].expires_at

\* C21. Lease renewal: renew_lease(id, t) returns Ok and sets the
\* expires-at of lease id to t, changing nothing else, exactly when the
\* lease exists and its auto-renew flag is true; otherwise it returns an
\* error and leaves the whole lease table unchanged.
C21_LeaseRenewal ==
    [][(ret'.op = "renew_lease" /\ now' = now) =>
          IF ret'.rid \in DOMAIN active_leases /\ active_leases[ret'.rid].auto_renew
          THEN /\ ret'.tag = "Ok"
               /\ active_leases' =
                    [active_leases EXCEPT ![ret'.rid].expires_at = ret'.data.new_expiry]
          ELSE /\ ret'.tag # "Ok"
               /\ active_leases' = active_leases]_vars

\* a renewal of a lease without auto-renew was refused and the lease keeps an
\* expiry other than the one asked for, while another renewable lease exists
C21_Witness ==
    /\ ret.op = "renew_lease"
    /\ ret.tag = "PermissionDenied"
    /\ ret.rid \in DOMAIN active_leases
    /\ ~active_leases[ret.rid].auto_renew
    /\ active_leases[ret.rid].expires_at # ret.data.new_expiry
    /\ \E id \in DOMAIN active_leases : active_leases[id].auto_renew

(* ============================ claims: Manifest ========================= *)

\* the elements of a sequence
Elems(s) == {s[i] : i \in DOMAIN s}

\* C22. Manifest diff: create_diff(P) against the live table L lists as
\* added exactly the entries of the keys in P but not in L, as removed
\* exactly the keys in L but not in P, as updated exactly the common keys
\* whose result digest differs (with P's digest), each once; applying that
\* diff to L gives a table with P's key set and P's result digest per key.
C22_ManifestDiff ==
    ret.op = "create_diff" =>
        \E L \in {manifest.entries}, P \in {ret.data.new_entries}, d \in {ret.data.diff} :
            /\ Elems(d.added) = {P[k] : k \in DOMAIN P \ DOMAIN L}
            /\ Len(d.added) = Cardinality(DOMAIN P \ DOMAIN L)
            /\ Elems(d.removed) = DOMAIN L \ DOMAIN P
            /\ Len(d.removed) = Cardinality(DOMAIN L \ DOMAIN P)
            /\ Elems(d.updated) =
                  {<<k, P[k].result_cid>> :
                     k \in {q \in DOMAIN L \cap DOMAIN P : L[q].result_cid # P[q].result_cid}}
            /\ Len(d.updated) = Cardinality(Elems(d.updated))
            /\ \E R \in {apply_diff(manifest, d).entries} :
                  /\ DOMAIN R = DOMAIN P
                  /\ \A k \in DOMAIN P : R[k].result_cid = P[k].result_cid

\* the live table holds one key and the proposed table changes its digest
\* and adds a second key: the diff has one update, one addition, no removal
C22_Witness ==
    /\ ret.op = "create_diff"
    /\ Len(manifest.diffs) > 0
    /\ Cardinality(DOMAIN manifest.entries) = 1
    /\ Len(ret.data.diff.updated) = 1
    /\ Len(ret.data.diff.added) = 1
    /\ Len(ret.data.diff.removed) = 0

\* the live table obtained by applying the first n logged diffs, in log
\* order, to the empty table
RECURSIVE FoldDiffs(_, _)
FoldDiffs(diffs, n) ==
    IF n = 0 THEN ManifestNew
    ELSE apply_diff(FoldDiffs(diffs, n - 1), diffs[n])

\* C23. Manifest versions: every diff in the manifest log carries the
\* version of the diff logged before it plus one (the first one base + 1),
\* so the logged versions are strictly increasing, and the live table is
\* the fold of the logged diffs in that order.
C23_ManifestVersions ==
    /\ \A i \in DOMAIN manifest.diffs :
          manifest.diffs[i].version = manifest.base_version + i
    /\ manifest.entries = FoldDiffs(manifest.diffs, Len(manifest.diffs)).entries

(* ============================= claims: TraceNF ========================= *)

\* C24. Trace normal form is order-independent: two traces that hold the
\* same operations in different orders get the same canonical digest.
C24_OrderIndependent ==
    (ret.op = "from_trace" /\ args[2] \in Reorderings(args[1]))
        => ret.data[1].canonical_form = ret.data[2].canonical_form

(* =========================== claims: PlanSwitcher ====================== *)

\* the original statement of C25: for every query key, every recorded
\* history and every plan list P, select_plan returns an element of P
C25_SelectedIsOffered ==
    ret.op = "select_plan" => ret.data.plan \in Elems(ret.data.available_plans)

\* C25. Plan selection stays inside the offered plans: for every query
\* key, every recorded history and every non-empty plan list P,
\* select_plan(Q, P) returns an element of P, whether it explores or
\* exploits (for the empty list it returns PathFirst([])).
C25_SelectedIsOfferedNonEmpty ==
    ret.op = "select_plan" =>
        IF ret.data.available_plans = <<>>
        THEN ret.data.plan = PathFirst(<<>>)
        ELSE ret.data.plan \in Elems(ret.data.available_plans)

\* the planner exploited a recorded history and returned the second of two
\* offered plans
C25_Witness ==
    /\ ret.op = "select_plan"
    /\ ~ret.data.explore
    /\ ret.data.query_key \in DOMAIN plan_stats
    /\ Len(ret.data.available_plans) = 2
    /\ ret.data.plan = ret.data.available_plans[2]
    /\ ret.data.plan # ret.data.available_plans[1]

\* the mean latency of a plan over its own successful observations
OwnMean(stats, plan) ==
    LET own == SelectSeq(stats, LAMBDA s : s.plan = plan /\ s.success)
    IN  [sum |-> SumTimes(own, 1), n |-> Len(own)]

\* C26. Plan learning: when the planner exploits, select_plan(Q, P)
\* returns a plan of P than which no plan of P has a lower mean latency over
\* its successful observations recorded for Q (none counts as infinite);
\* with no history for Q it returns the first plan of P.
C26_PlanLearning ==
    (ret.op = "select_plan" /\ ~ret.data.explore /\ ret.data.available_plans # <<>>) =>
        IF ret.data.query_key \in DOMAIN plan_stats
        THEN \A i \in DOMAIN ret.data.available_plans :
                ~MeanLt(OwnMean(plan_stats[ret.data.query_key], ret.data.available_plans[i]),
                        OwnMean(plan_stats[ret.data.query_key], ret.data.plan))
        ELSE ret.data.plan = ret.data.available_plans[1]

(* =========================== claims: MeetInMiddle ====================== *)

\* C27. Meet-in-the-middle split: split_query returns nothing for a path
\* of fewer than 3 segments; for a longer path it returns a left and a right
\* sub-path, both non-empty, whose concatenation is the path, a join key
\* equal to the last segment of the left one, and a split point whose cost
\* cost(left) + cost(right) + 1 no other split point undercuts.
C27_Split ==
    ret.op = "split_query" =>
        IF Len(args[1]) < 3 THEN ret.data = {}
        ELSE /\ Cardinality(ret.data) = 1
             /\ \A s \in ret.data :
                   /\ s.left_path # <<>>
                   /\ s.right_path # <<>>
                   /\ s.left_path \o s.right_path = args[1]
                   /\ s.join_key = s.left_path[Len(s.left_path)]
                   /\ s.estimated_cost = total_cost(args[1], args[2], Len(s.left_path))
                   /\ \A k \in 1..(Len(args[1]) - 1) :
                         s.estimated_cost <= total_cost(args[1], args[2], k)

\* a path of four segments was split in the middle, the first split point
\* costing more, and the join key differs from the segment behind it
C27_Witness ==
    /\ ret.op = "split_query"
    /\ Len(args[1]) = 4
    /\ \E s \in ret.data :
          /\ Len(s.left_path) = 2
          /\ s.join_key # s.right_path[1]
          /\ total_cost(args[1], args[2], 1) > s.estimated_cost

(* ========================= claims: SnapshotManager ===================== *)

\* the recorded access count of a timestamp, 0 when none is recorded
AccessCount(ts) == IF ts \in DOMAIN access_counts THEN access_counts[ts] ELSE 0

\* C28. Snapshot eviction policy: a snapshot that create_snapshot drops
\* has the lowest recorded access count among the stored snapshots, and the
\* map never holds more snapshots than its capacity.
C28_EvictsLeastAccessed ==
    [][/\ \A ts \in DOMAIN snapshots \ DOMAIN snapshots' :
             \A other \in DOMAIN snapshots : AccessCount(ts) <= AccessCount(other)
       /\ Cardinality(DOMAIN snapshots') <= max_snapshots]_vars

(* ============================== claims: search ========================= *)

\* C29. Case-folded search: search(term) returns exactly the nodes that
\* have a posting under the lower-cased term, so a node indexed from
\* "Hello World" is returned for "hello", "Hello" and "HELLO" alike.
C29_CaseFolded ==
    ret.op = "search" =>
        {ret.data.results[i][1] : i \in DOMAIN ret.data.results}
          = {p.rid : p \in Elems(ListOf(postings, to_lowercase(ret.data.query)))}

\* C30. Search result order: the (R, score) pairs come sorted by
\* descending score, and pairs with equal score by ascending R.
C30_ResultOrder ==
    ret.op = "search" =>
        \A i, j \in DOMAIN ret.data.results :
            i < j =>
                \/ ret.data.results[i][2] > ret.data.results[j][2]
                \/ /\ ret.data.results[i][2] = ret.data.results[j][2]
                   /\ ret.data.results[i][1] < ret.data.results[j][1]

(* ======================= claims: pack writer =========================== *)

\* the bands of the runs that put into more than one band
CasBands == {"Small", "Index"}

\* puts into packs of two bands, and reopening
NextCasBands == PutOk(Data, {NodeKind}, CasBands) \/ Reopen
SpecCasBands == InitStoreOnly /\ [][NextCasBands]_vars

\* the call cas.put(_, _, band) appended a record to the content index
PutWrote(band) ==
    /\ PutOk(Data, {NodeKind}, {band})
    /\ Len(cidx_file') = Len(cidx_file) + 1

\* C31. Writer slot per band: an object that put(_, _, band) writes goes
\* into a pack whose band is the band passed to put, never into a writer that
\* was opened for another band.
C31_WriterPerBand ==
    [][\A band \in CasBands :
          PutWrote(band) =>
              /\ packs'[cidx_file'[Len(cidx_file')].pack_id].band = band
              /\ current_pack.open => current_pack.band = band]_vars

\* the hard cap of a pack, twice the target size as in the source
PACK_SIZE_MAX == 2 * PACK_SIZE_TARGET

\* payloads of one, three and six bytes: each below the hard cap, two of them
\* together above it
LargeData == {<<0>>, <<0, 0, 0>>, <<0, 0, 3>>, <<1, 1, 1>>,
              <<0, 0, 0, 0, 0, 2>>, <<1, 1, 1, 1, 1, 1>>}

\* cas.put(data, kind, band) returning Ok, for payloads of any length in D
PutLarge(D, K, B) ==
    \E data \in D, kind \in K, band \in B :
        /\ \/ BloomContains(bloom_filters, Hash(data), None, None)
           \/ /\ Len(cidx_file) < MaxRecords
              /\ current_pack.open \/ next_pack_id < MaxPacks
        /\ \E r \in {Put(CasState, data, kind, band, "ok", 0)} :
               /\ SetCas(r.s)
               /\ ret' = Ret("put", r.tag, r.cid, data, 0)
        /\ UNCHANGED <<graphVars, faults, otherCrates>>

\* puts of payloads that are large against the pack sizes, and reopening
NextCasCap == PutLarge(LargeData, {NodeKind}, {"Small"}) \/ Reopen
SpecCasCap == InitStoreOnly /\ [][NextCasCap]_vars

\* C32. Hard pack cap: no pack ever grows beyond the hard cap; a put whose
\* bytes would take the writer's offset past the cap fails and writes neither
\* bytes nor a content-index record.
C32_HardCap ==
    /\ \A p \in DOMAIN pack_files : Len(pack_files[p]) <= PACK_SIZE_MAX
    /\ \A i \in DOMAIN cidx_file :
           cidx_file[i].offset + cidx_file[i].len <= PACK_SIZE_MAX

\* large puts, puts whose I/O fails, and reopening
NextCasSeal ==
    \/ PutLarge(LargeData, {NodeKind}, {"Small"})
    \/ PutErr(LargeData, {NodeKind}, {"Small"})
    \/ Reopen
SpecCasSeal == InitStoreOnly /\ [][NextCasSeal]_vars

\* pack p was sealed: put closes the writer exactly when the record it
\* appended ends at or beyond the target size
Sealed(p) ==
    \E i \in DOMAIN cidx_file :
        /\ cidx_file[i].pack_id = p
        /\ cidx_file[i].offset + cidx_file[i].len >= PACK_SIZE_TARGET

\* C33. Pack writer state machine: a sealed pack never receives further
\* bytes, also after the store is reopened, and a newly opened pack has a
\* fresh pack id.
C33_SealedPackKeepsBytes ==
    [][/\ \A p \in DOMAIN pack_files :
             Sealed(p) => pack_files'[p] = pack_files[p]
       /\ (~current_pack.open /\ current_pack'.open) =>
             current_pack'.pack_id \notin DOMAIN pack_files]_vars

\* the byte range of a content-index record lies inside its pack file
InsideExtent(record, files) ==
    /\ record.pack_id \in DOMAIN files
    /\ record.offset + record.len <= Len(files[record.pack_id])

\* C34. Write ordering in put: a record is appended only together with the
\* object's bytes, and the Bloom filters learn a digest only together with
\* its record; a put that returns an error appends no record and leaves the
\* Bloom filters unchanged; every record of the index points to a byte range
\* inside the written extent of its pack.
C34_WriteOrdering ==
    [][/\ (ret'.op = "put" /\ ret'.tag = "Err") =>
             cidx_file' = cidx_file /\ bloom_filters' = bloom_filters
       /\ ret'.op = "put" =>
             \/ cidx_file' = cidx_file /\ bloom_filters' = bloom_filters
             \/ /\ cidx_file' = Append(cidx_file, cidx_file'[Len(cidx_file')])
                /\ cidx_file'[Len(cidx_file')].cid = ret'.cid
                /\ cidx_file'[Len(cidx_file')].len = Len(ret'.data)
                /\ BloomContains(bloom_filters', ret'.cid, None, None)
       /\ \A i \in DOMAIN cidx_file' : InsideExtent(cidx_file'[i], pack_files')]_vars

\* C34 witness: a write_all failed after some bytes, so the file cursor is
\* ahead of the writer's offset, and a later put appended its record
C34_Witness ==
    /\ faults = 1
    /\ ret.op = "put" /\ ret.tag = "Ok"
    /\ current_pack.open
    /\ current_pack.file_pos > current_pack.current_offset
    /\ \E i \in DOMAIN cidx_file :
           cidx_file[i].cid = ret.cid /\ cidx_file[i].pack_id = current_pack.pack_id

(* ===================== claims: capability functor ====================== *)

\* OwnedCapCid::new, OwnedCapCid::into_parts
OwnedCapCidNew(data, cap, cid) == [cap_cid |-> CapCidNew(cid, cap), data |-> data]
into_parts(owned) == <<owned.cap_cid, owned.data>>

\* a cap_map that hands on the capability without its WRITE permission
cap_map_DropsWrite(owned, f) ==
    OwnedCapCidNew(f[owned.data],
                   [owned.cap_cid.cap EXCEPT !.perms = BitAnd(@, READ)],
                   owned.cap_cid.cid)

\* OwnedCapCid::cap_map; the closure f is a function on the data values
cap_map(owned, f) ==
    LET parts == into_parts(owned)
        cap_cid == parts[1]
        data == parts[2]
    IN  OwnedCapCidNew(f[data], cap_cid.cap, cap_cid.cid)

\* the data values, the closures on them and the owned values mapped
MapData == 0..1
MapClosures == [MapData -> 0..2]
MapCids == {Hash(<<0>>), Hash(<<1>>)}
OwnedValues ==
    {OwnedCapCidNew(d, cap, cid) : d \in MapData, cap \in CapsWithProof(1), cid \in MapCids}

\* owned.cap_map(f) for the arguments drawn
ApplyCapMap ==
    /\ ret' = Ret("cap_map", "Ok", <<>>, cap_map(args[1], args[2]), 0)
    /\ PureFrame

SpecCapMap == InitArgs(OwnedValues \X MapClosures) /\ [][ApplyCapMap]_vars

\* C35. Capability functor law: cap_map(owned, f) carries exactly the
\* capability (base, length, permissions, proof) and the digest of owned, for
\* every f; its data is f applied to the data of owned.
C35_CapMapKeepsCap ==
    ret.op = "cap_map" =>
        /\ ret.data.cap_cid.cap = args[1].cap_cid.cap
        /\ ret.data.cap_cid.cid = args[1].cap_cid.cid
        /\ ret.data.data = args[2][args[1].data]

\* C35 witness: a value with READ and WRITE was mapped and its data changed
C35_Witness ==
    /\ ret.op = "cap_map"
    /\ args[1].cap_cid.cap.perms = READ + WRITE
    /\ ret.data.data # args[1].data

(* ======================= claims: permission test ======================= *)

\* cap.has_perm(mask) for the arguments drawn
ApplyHasPerm ==
    /\ ret' = Ret("has_perm", "Ok", <<>>, has_perm(args[1], args[2]), 0)
    /\ PureFrame

\* every capability of the bounded ranges against every permission mask
SpecHasPerm == InitArgs(CapsWithProof(0) \X (0..MaxPerms)) /\ [][ApplyHasPerm]_vars

\* C38. Permission test is conjunctive: has_perm(mask) holds only when
\* every permission bit set in mask is granted by the capability.
C38_HasPermConjunctive ==
    (ret.op = "has_perm" /\ ret.data) =>
        BitAnd(args[1].perms, args[2]) = args[2]

(* ==================== claims: search after updates ===================== *)

\* the payload node rid currently maps to
PayloadOf(rid) == CHOOSE data \in NodeData : Hash(data) = rid_to_cid[rid]

\* the number of words of text equal to term, letter case aside
Occurrences(term, text) ==
    Cardinality({i \in DOMAIN split_whitespace(text) :
                    to_lowercase(split_whitespace(text)[i]) = to_lowercase(term)})

\* the score a result list reports for rid: none counts as 0
ScoreOf(results, rid) ==
    IF \E i \in DOMAIN results : results[i][1] = rid
    THEN (CHOOSE pair \in Elems(results) : pair[1] = rid)[2]
    ELSE 0

\* C36. Search score follows the node's content: for a lower-case term, the
\* score search reports for node R equals the number of occurrences of the
\* term in R's current payload, also after R was updated; postings of
\* superseded versions do not add to the score.
C36_ScoreFollowsContent ==
    (ret.op = "search" /\ ret.data.query = to_lowercase(ret.data.query)) =>
        \A rid \in DOMAIN rid_to_cid :
            ScoreOf(ret.data.results, rid) = Occurrences(ret.data.query, PayloadOf(rid))

(* ================ claims: create_snapshot, step by step ================ *)

\* the capacities a SnapshotManager is constructed with
Capacities == 0..max_snapshots

SnapStepFrame ==
    UNCHANGED <<storeAndGraph, execVars, concurVars, now, args, coreVars, plan_stats,
                tasks, locks>>

\* manager.create_snapshot(as_of, data_cid) is entered
SnapCall(T, C) ==
    \E as_of \in T, data_cid \in C :
        /\ snap_call.pc = "idle"
        /\ snap_call' = [snap_call EXCEPT !.pc = "while", !.as_of = as_of,
                                          !.data_cid = data_cid, !.passes = 0]
        /\ ret' = Ret("create_snapshot", "Running", data_cid, <<>>, as_of)
        /\ UNCHANGED <<snapshots, access_counts>>
        /\ SnapStepFrame

\* one pass of `while self.snapshots.len() >= self.max_snapshots`: the first
\* key is removed if there is one, and the test is made again
SnapEvict ==
    /\ snap_call.pc = "while"
    /\ Cardinality(DOMAIN snapshots) >= snap_call.max_snapshots
    /\ IF DOMAIN snapshots # {}
       THEN LET oldest_ts == CHOOSE k \in DOMAIN snapshots : \A j \in DOMAIN snapshots : k <= j
            IN  /\ snapshots' = MapRemove(snapshots, oldest_ts)
                /\ access_counts' = MapRemove(access_counts, oldest_ts)
       ELSE UNCHANGED <<snapshots, access_counts>>
    /\ snap_call' = [snap_call EXCEPT !.passes = (@ + 1) % 2]
    /\ UNCHANGED ret
    /\ SnapStepFrame

\* the loop is left, the snapshot inserted and the call returns
SnapInsert ==
    /\ snap_call.pc = "while"
    /\ Cardinality(DOMAIN snapshots) < snap_call.max_snapshots
    /\ snapshots' = MapInsert(snapshots, snap_call.as_of, snap_call.data_cid)
    /\ snap_call' = [snap_call EXCEPT !.pc = "idle"]
    /\ ret' = Ret("create_snapshot", "Ok", snap_call.data_cid, <<>>, snap_call.as_of)
    /\ UNCHANGED access_counts
    /\ SnapStepFrame

\* a manager of any capacity, its calls followed step by step
InitSnapLoop ==
    /\ InitCas /\ InitGraph(MaxTs) /\ InitExec /\ InitConcur /\ InitCore /\ InitPlanner
    /\ now = 0 /\ args = <<>>
    /\ \E cap \in Capacities : InitSteps(cap)
NextSnapLoop == SnapCall(SnapTimes, SnapCids) \/ SnapEvict \/ SnapInsert
SpecSnapLoop == InitSnapLoop /\ [][NextSnapLoop]_vars

\* the thread that called create_snapshot keeps running it
SpecSnapLoopFair == SpecSnapLoop /\ WF_vars(SnapEvict) /\ WF_vars(SnapInsert)

\* C40. create_snapshot always terminates: for every capacity
\* max_snapshots >= 0 and every state of the snapshot map, a call that was
\* entered returns, with the new snapshot stored.
C40_CreateSnapshotTerminates ==
    (snap_call.pc = "while") ~>
        (snap_call.pc = "idle" /\ snap_call.as_of \in DOMAIN snapshots)

(* ================= GraphDB calls running concurrently ================== *)
\* Each call is followed from one lock acquisition to the next: a task first
\* joins the queue of the lock it needs (tokio's RwLock serves its waiters in
\* the order they arrived), and once it is served it runs the code up to its
\* next `.await` on a lock in one step.

\* how many calls one task makes
MaxTaskCalls == 2

\* the order in which create_node and update_node take the two locks they
\* hold together
CreateOrder == <<"rid_to_cid", "temporal_rid_mappings">>

\* an update_node that takes the timeline lock before the Rid map's
UpdateOrder_Reversed == <<"temporal_rid_mappings", "rid_to_cid">>

UpdateOrder == <<"rid_to_cid", "temporal_rid_mappings">>

NodeOrder(op) == IF op = "update_node" THEN UpdateOrder ELSE CreateOrder

\* the lock a task at position pc of call op acquires, and how
LockOf(op, pc) ==
    CASE pc = "ts" -> "current_timestamp"
      [] pc = "len" -> "rid_to_cid"
      [] pc = "put" -> "cas"
      [] pc = "map" -> NodeOrder(op)[1]
      [] pc = "tmp" -> NodeOrder(op)[2]
      [] pc = "idx" -> "postings"
      [] pc = "gn_map" -> "rid_to_cid"
      [] pc = "ga_tmp" -> "temporal_rid_mappings"
      [] pc = "cas_read" -> "cas"
      [] pc = "adj" -> "adjacency"
      [] pc = "rev" -> "reverse_adjacency"
      [] pc = "traverse" -> "adjacency"
      [] pc = "search" -> "postings"
      [] pc = "set_ts" -> "current_timestamp"

ModeOf(pc) ==
    IF pc \in {"ts", "len", "gn_map", "ga_tmp", "cas_read", "traverse", "search"}
    THEN "read" ELSE "write"

\* RwLock: join the queue, be served, hold, release
Enqueue(lk, l, t, mode) == [lk EXCEPT ![l].queue = Append(@, <<t, mode>>)]
Compatible(lk, l, mode) ==
    IF mode = "read" THEN \A h \in lk[l].holders : h[2] = "read"
    ELSE lk[l].holders = {}
Served(t) ==
    LET T == tasks[t]
        l == LockOf(T.op, T.pc)
    IN  /\ T.pc # "idle"
        /\ T.req
        /\ locks[l].queue # <<>>
        /\ locks[l].queue[1][1] = t
        /\ Compatible(locks, l, ModeOf(T.pc))
Dequeue(lk, l) == [lk EXCEPT ![l].queue = Tail(@)]
Hold(lk, l, t, mode) == [lk EXCEPT ![l].holders = @ \cup {<<t, mode>>}]
ReleaseAll(lk, t) == [l \in DOMAIN lk |-> [lk[l] EXCEPT !.holders = {h \in @ : h[1] # t}]]

\* the lock of the task's position, taken and given back within the step
Pass(t) == Dequeue(locks, LockOf(tasks[t].op, tasks[t].pc))

\* the task moves on to position pc, or returns with tag
Goto(t, pc, a) == [tasks EXCEPT ![t].pc = pc, ![t].req = FALSE, ![t].a = a]
Return(t, tag, a) ==
    [tasks EXCEPT ![t].pc = "idle", ![t].req = FALSE, ![t].a = [a EXCEPT !.tag = tag]]

\* what no step of a GraphDB call touches
TaskFrame ==
    UNCHANGED <<ret, faults, execVars, concurVars, now, args, coreVars, plannerVars,
                snap_call>>

\* the payload each task writes, and the arguments of its calls
TaskData(t) == <<t>>
FirstPc(op) ==
    CASE op \in {"create_node", "update_node", "create_edge"} -> "ts"
      [] op = "get_node" -> "gn_map"
      [] op = "get_node_at" -> "ga_tmp"
      [] op = "traverse" -> "traverse"
      [] op = "search" -> "search"
      [] op = "set_timestamp" -> "set_ts"
ArgsOf(t, op) ==
    CASE op = "create_node" -> [NoLocals EXCEPT !.data = TaskData(t)]
      [] op = "update_node" -> [NoLocals EXCEPT !.rid = 1, !.data = TaskData(t)]
      [] op = "create_edge" -> [NoLocals EXCEPT !.rid = 1, !.to = 2, !.data = <<1>>]
      [] op = "get_node" -> [NoLocals EXCEPT !.rid = 1]
      [] op = "get_node_at" -> [NoLocals EXCEPT !.rid = 1, !.ts = MaxTs]
      [] op = "traverse" -> [NoLocals EXCEPT !.rid = 1]
      [] op = "search" -> [NoLocals EXCEPT !.data = <<1>>]
      [] op = "set_timestamp" -> [NoLocals EXCEPT !.ts = 1]

\* task t calls op
Call(t, Ops) ==
    \E op \in Ops :
        /\ tasks[t].pc = "idle"
        /\ tasks[t].calls < MaxTaskCalls
        /\ tasks' = [tasks EXCEPT ![t] = [pc |-> FirstPc(op), op |-> op,
                                          calls |-> @.calls + 1, req |-> FALSE,
                                          a |-> ArgsOf(t, op)]]
        /\ UNCHANGED <<casVars, graphVars, locks>>
        /\ TaskFrame

\* `.read().await` / `.write().await`: the task joins the lock's queue
Request(t) ==
    /\ tasks[t].pc # "idle"
    /\ ~tasks[t].req
    /\ locks' = Enqueue(locks, LockOf(tasks[t].op, tasks[t].pc), t, ModeOf(tasks[t].pc))
    /\ tasks' = [tasks EXCEPT ![t].req = TRUE]
    /\ UNCHANGED <<casVars, graphVars>>
    /\ TaskFrame

\* let ts = *self.current_timestamp.read().await
TsStep(t) ==
    /\ tasks[t].pc = "ts" /\ Served(t)
    /\ locks' = Pass(t)
    /\ tasks' = Goto(t, IF tasks[t].op = "create_node" THEN "len" ELSE "put",
                     [tasks[t].a EXCEPT !.ts = current_timestamp])
    /\ UNCHANGED <<casVars, graphVars>>
    /\ TaskFrame

\* let rid = Rid(self.rid_to_cid.read().await.len() as u64 + 1)
LenStep(t) ==
    /\ tasks[t].pc = "len" /\ Served(t)
    /\ locks' = Pass(t)
    /\ tasks' = Goto(t, "put",
                     [tasks[t].a EXCEPT !.rid = Cardinality(DOMAIN rid_to_cid) + 1])
    /\ UNCHANGED <<casVars, graphVars>>
    /\ TaskFrame

\* { let mut cas = self.cas.write().await; cas.put(data, kind, Small).await? }
PutStep(t) ==
    /\ tasks[t].pc = "put" /\ Served(t)
    /\ locks' = Pass(t)
    /\ \E r \in {Put(CasState, tasks[t].a.data,
                     IF tasks[t].op = "create_edge" THEN EdgeKind ELSE NodeKind,
                     "Small", "ok", 0)} :
           /\ SetCas(r.s)
           /\ tasks' = Goto(t, IF tasks[t].op = "create_edge" THEN "adj" ELSE "map",
                            [tasks[t].a EXCEPT !.cid = r.cid])
    /\ UNCHANGED graphVars
    /\ TaskFrame

\* the first of two locks held together: rid_to_cid.write() in create_node
\* and update_node, adjacency.write() in create_edge
HoldStep(t) ==
    /\ tasks[t].pc \in {"map", "adj"} /\ Served(t)
    /\ locks' = Hold(Pass(t), LockOf(tasks[t].op, tasks[t].pc), t, "write")
    /\ tasks' = Goto(t, IF tasks[t].pc = "map" THEN "tmp" ELSE "rev", tasks[t].a)
    /\ UNCHANGED <<casVars, graphVars>>
    /\ TaskFrame

\* temporal_rid_mappings.write(), both inserts, both guards dropped
TmpStep(t) ==
    LET a == tasks[t].a
    IN  /\ tasks[t].pc = "tmp" /\ Served(t)
        /\ locks' = ReleaseAll(Pass(t), t)
        /\ rid_to_cid' = MapInsert(rid_to_cid, a.rid, a.cid)
        /\ temporal_rid_mappings' = TemporalInsert(temporal_rid_mappings, a.rid, a.ts, a.cid)
        /\ IF IsUtf8(a.data)
           THEN tasks' = Goto(t, "idx", a) /\ UNCHANGED created
           ELSE /\ tasks' = Return(t, "Ok", a)
                /\ created' = IF tasks[t].op = "create_node"
                              THEN Append(created, a.rid) ELSE created
        /\ UNCHANGED <<casVars, adjacency, reverse_adjacency, postings, current_timestamp>>
        /\ TaskFrame

\* index_text under postings.write(), then Ok is returned
IdxStep(t) ==
    LET a == tasks[t].a
    IN  /\ tasks[t].pc = "idx" /\ Served(t)
        /\ locks' = Pass(t)
        /\ postings' = index_text(postings, a.rid, a.data, a.ts)
        /\ tasks' = Return(t, "Ok", a)
        /\ created' = IF tasks[t].op = "create_node" THEN Append(created, a.rid) ELSE created
        /\ UNCHANGED <<casVars, rid_to_cid, temporal_rid_mappings, adjacency,
                       reverse_adjacency, current_timestamp>>
        /\ TaskFrame

\* the digest looked up under rid_to_cid.read() (get_node) or
\* temporal_rid_mappings.read() (get_node_at)
LookupStep(t) ==
    LET a == tasks[t].a
        cid_opt == IF tasks[t].pc = "gn_map"
                   THEN (IF a.rid \in DOMAIN rid_to_cid THEN Some(rid_to_cid[a.rid])
                         ELSE None)
                   ELSE TimelineCidAt(temporal_rid_mappings, a.rid, a.ts)
    IN  /\ tasks[t].pc \in {"gn_map", "ga_tmp"} /\ Served(t)
        /\ locks' = Pass(t)
        /\ IF cid_opt = None
           THEN tasks' = Return(t, "None", a)
           ELSE \E cid \in cid_opt : tasks' = Goto(t, "cas_read", [a EXCEPT !.cid = cid])
        /\ UNCHANGED <<casVars, graphVars>>
        /\ TaskFrame

\* let cas = self.cas.read().await; Ok(Some(cas.get(&cid).await?))
CasReadStep(t) ==
    /\ tasks[t].pc = "cas_read" /\ Served(t)
    /\ locks' = Pass(t)
    /\ \E res \in Get(CasState, tasks[t].a.cid) :
           tasks' = Return(t, res.tag, [tasks[t].a EXCEPT !.got = res.data])
    /\ UNCHANGED <<casVars, graphVars>>
    /\ TaskFrame

\* reverse_adjacency.write(), both pushes, both guards dropped
RevStep(t) ==
    LET a == tasks[t].a
    IN  /\ tasks[t].pc = "rev" /\ Served(t)
        /\ locks' = ReleaseAll(Pass(t), t)
        /\ adjacency' = EntryPush(adjacency, a.rid, ForwardEntry(a.rid, a.to, 1, a.cid, a.ts))
        /\ reverse_adjacency' =
              EntryPush(reverse_adjacency, a.to, ReverseEntry(a.rid, a.to, 1, a.cid, a.ts))
        /\ tasks' = Return(t, "Ok", a)
        /\ UNCHANGED <<casVars, rid_to_cid, temporal_rid_mappings, postings,
                       current_timestamp, created>>
        /\ TaskFrame

\* traverse under adjacency.read(), search under postings.read()
ScanStep(t) ==
    LET a == tasks[t].a
    IN  /\ tasks[t].pc \in {"traverse", "search"} /\ Served(t)
        /\ locks' = Pass(t)
        /\ IF tasks[t].pc = "traverse"
           THEN tasks' = Return(t, "Ok",
                   [a EXCEPT !.list = traverse(adjacency, a.rid, None, MaxDepth, None)])
           ELSE \E results \in search(postings, a.data) :
                   tasks' = Return(t, "Ok", [a EXCEPT !.list = results])
        /\ UNCHANGED <<casVars, graphVars>>
        /\ TaskFrame

\* *self.current_timestamp.write().await = ts
SetTsStep(t) ==
    /\ tasks[t].pc = "set_ts" /\ Served(t)
    /\ locks' = Pass(t)
    /\ current_timestamp' = tasks[t].a.ts
    /\ tasks' = Return(t, "Ok", tasks[t].a)
    /\ UNCHANGED <<casVars, rid_to_cid, temporal_rid_mappings, adjacency,
                   reverse_adjacency, postings, created>>
    /\ TaskFrame

\* the steps a task takes once it is in a call
TaskStep(t) ==
    \/ Request(t) \/ TsStep(t) \/ LenStep(t) \/ PutStep(t) \/ HoldStep(t) \/ TmpStep(t)
    \/ IdxStep(t) \/ LookupStep(t) \/ CasReadStep(t) \/ RevStep(t) \/ ScanStep(t)
    \/ SetTsStep(t)

\* the steps of create_node, get_node and get_node_at
NodeStep(t) ==
    \/ Request(t) \/ TsStep(t) \/ LenStep(t) \/ PutStep(t) \/ HoldStep(t) \/ TmpStep(t)
    \/ IdxStep(t) \/ LookupStep(t) \/ CasReadStep(t)

\* two tasks that create nodes on one GraphDB and read them back
RaceOps == {"create_node", "get_node", "get_node_at"}
NextRace == \E t \in Tasks : Call(t, RaceOps) \/ NodeStep(t)
SpecRace == InitStoreOnly /\ [][NextRace]_vars

\* task t has returned Ok from a call of op
Returned(t, op) ==
    tasks[t].pc = "idle" /\ tasks[t].op = op /\ tasks[t].a.tag = "Ok"

\* C37. Concurrent node creation is serialised: two create_node calls that
\* ran concurrently return distinct Rids, and afterwards each node maps to
\* its own payload and has its own timeline.
C37_DistinctRids ==
    \A t, u \in Tasks :
        (t # u /\ Returned(t, "create_node") /\ Returned(u, "create_node")) =>
            /\ tasks[t].a.rid # tasks[u].a.rid
            /\ rid_to_cid[tasks[t].a.rid] = Hash(tasks[t].a.data)
            /\ \A i \in DOMAIN temporal_rid_mappings[tasks[t].a.rid] :
                   temporal_rid_mappings[tasks[t].a.rid][i].cid = Hash(tasks[t].a.data)

(* ===================== claims: the store's locks ======================= *)

\* every call of the GraphDB, from tasks that run concurrently
AllOps == {"create_node", "update_node", "create_edge", "get_node", "get_node_at",
           "traverse", "search", "set_timestamp"}
NextLocks == \E t \in Tasks : Call(t, AllOps) \/ TaskStep(t)
SpecLocks == InitStoreOnly /\ [][NextLocks]_vars

\* the runtime keeps polling every task that is in a call
SpecLocksFair == SpecLocks /\ \A t \in Tasks : WF_vars(TaskStep(t))

\* task t waits for task u: t is in the queue of a lock that u holds in a
\* way that excludes t, or in which u is ahead of t
WaitsFor(t, u) ==
    LET l == LockOf(tasks[t].op, tasks[t].pc)
    IN  /\ t # u
        /\ tasks[t].pc # "idle"
        /\ tasks[t].req
        /\ \/ \E h \in locks[l].holders :
                 h[1] = u /\ (h[2] = "write" \/ ModeOf(tasks[t].pc) = "write")
           \/ \E i, j \in DOMAIN locks[l].queue :
                 i < j /\ locks[l].queue[i][1] = u /\ locks[l].queue[j][1] = t

\* no set of tasks in which every task waits for another task of the set
NoCyclicWait ==
    \A S \in SUBSET Tasks \ {{}} : \E t \in S : \A u \in S : ~WaitsFor(t, u)

\* C39. Deadlock freedom of the graph store: under any interleaving of
\* concurrent calls no set of tasks waits cyclically on the store's locks,
\* and with fair scheduling every call eventually returns: whenever a task
\* is in a call, it is between calls again later.
C39_DeadlockFree ==
    /\ []NoCyclicWait
    /\ \A t \in Tasks : []<>(tasks[t].pc = "idle")

\* C39 witness: a task that holds the Rid map's lock waits for the timeline
\* lock behind another task
C39_Witness ==
    \E t, u \in Tasks :
        /\ <<t, "write">> \in locks["rid_to_cid"].holders
        /\ tasks[t].pc = "tmp"
        /\ WaitsFor(t, u)

====
